---- MODULE Spec2Model ----
(***************************************************************************)
(* Network-analyzer: the scanning engine of the browser network scanner.   *)
(*                                                                         *)
(*   - parseCidr / ipToLong / longToIp        (src/utils/cidrUtils.ts)     *)
(*   - checkPort, pingPort, checkStability and scanIp, the two-stage host  *)
(*     scanner                                                             *)
(*                                    (src/services/networkService.ts)     *)
(*   - App: handleStartScan, processIp, runWorker, the background          *)
(*     classification task and its conflict check  (src/unnamed/part_000,  *)
(*     the current App; the earlier App follows it in the same file)       *)
(*   - ScanForm.handleSubmit                  (src/components/ScanForm.tsx)*)
(*   - analyzeDeviceByPorts                 (src/services/geminiService.ts)*)
(*                                                                         *)
(* Specifications:                                                         *)
(*   SpecCidr    parseCidr applied to one text                             *)
(*   SpecScanIp  one call of scanIp, probe by probe                        *)
(*   Spec        the App over short address lists, several runs            *)
(*   SpecPool    the App over a list longer than the worker pool, one run  *)
(*   SpecRun     the end of one run, with fairness for the scans           *)
(*   SpecProbe   one call of checkPort or pingPort, event by event         *)
(*   SpecStability  one call of checkStability, ping by ping               *)
(*                                                                         *)
(* Strings of the program that are parsed or formatted are sequences of    *)
(* one-character strings, so that splitting, the regular expression,       *)
(* parseInt and number formatting are computed and not assumed.            *)
(* Presentation state (viewMode, selectedDevice) is not part of the model. *)
(***************************************************************************)
EXTENDS Integers, Sequences, FiniteSets, TLC

VARIABLES
    \* ---- cidrUtils.ts: one call of parseCidr
    cidr,                \* the text of the CIDR field (ScanForm.tsx:21)
    cidrResult,          \* <<>> before the call, <<result>> after it
    \* ---- networkService.ts: one call of scanIp, probe by probe
    probe,               \* one checkPort or pingPort call: its closure and promise
                         \* (<<>> when no single probe is followed)
    stability,           \* one checkStability call (<<>> when there is none)
    modal,               \* the state of DeviceDetailModal with its `device` prop
                         \* (<<>> when no modal is rendered)
    scanHost,            \* the `ip` argument
    scanPorts,           \* the `ports` argument
    scanStage,           \* "idle", "stage1", "stage2", "returned"
    discoveryResults,    \* per discovery probe: "pending", "open", "closed"
    fullScanResults,     \* per Stage-2 probe:   "pending", "open", "closed"
    probeCount,          \* number of checkPort calls made by this scanIp call
    scanResult,          \* <<>> until scanIp returns, then <<result>>
    \* ---- App (part_000): React state
    devices,             \* useState<Device[]>
    previousScanDevices, \* useState<Map<string, Device>>
    isScanning,          \* useState(false)
    scanProgress,        \* { current, total, currentIp, found }
    lastScanParams,      \* <<>> (null) or <<[ipList, timeout]>>
    \* ---- App (part_000): the closure of the handleStartScan call in progress
    queue,               \* const queue = [...ipList]
    workers,             \* per runWorker call: <<>> (returned) or <<[ip, stage,
                         \* answering]>> (awaiting processIp(ip), scanIp in `stage`)
    foundDevicesCount,   \* let foundDevicesCount
    tasks,               \* classification tasks awaiting analyzeDeviceByPorts, each
                         \* with the ip, scanResult and currentDevicesMap of its closure
    gen,                 \* number of handleStartScan calls so far (history, not program
                         \* state: a task carries the number of the run that made it)
    consoleErrors,       \* the addresses of the `Error scanning IP` lines written
                         \* by console.error (part_000:102)
    \* ---- environment
    timeout,             \* the text of the timeout field (ScanForm.tsx:22)
    formError,           \* the error text of ScanForm (ScanForm.tsx:23)
    scansLeft,           \* scans the operator still starts in this behaviour
    oracle               \* answers the classifier service gives in this behaviour

cidrVars == <<cidr, cidrResult>>
scanVars == <<probe, stability, modal, scanHost, scanPorts, scanStage, discoveryResults,
              fullScanResults, probeCount, scanResult>>
appVars  == <<devices, previousScanDevices, isScanning, scanProgress, lastScanParams,
              queue, workers, foundDevicesCount, tasks, gen, consoleErrors, timeout, formError,
              scansLeft, oracle>>
vars     == <<cidrVars, scanVars, appVars>>

(***************************************************************************)
(* Bounds of the model.                                                    *)
(***************************************************************************)
\* Pool size used by the model.  The source sets concurrencyLimit = 20
\* (part_000:114); the model runs the same scheduler with a smaller pool so
\* that lists longer than the pool can be explored exhaustively.
MaxWorkers == 2
\* Scans (Start Scan / Refresh Scan) in one behaviour.
MaxScans == 2

(***************************************************************************)
(* Characters, strings and numbers.                                        *)
(***************************************************************************)
DigitChars == <<"0", "1", "2", "3", "4", "5", "6", "7", "8", "9">>

IsDigit(c) == \E i \in 1..10 : DigitChars[i] = c

DigitVal(c) == (CHOOSE i \in 1..10 : DigitChars[i] = c) - 1

\* An array given element by element, as the tuple of its computed elements
\* (the same sequence; its elements are then computed once and not at every
\* use).
Computed(a) == SubSeq(a, 1, Len(a))

\* A call f(x) of JavaScript: the argument is evaluated, once, before the
\* body of f.
ByValue(F(_), x) == CHOOSE r \in {F(v) : v \in {x}} : TRUE

\* String.prototype.split(sep) for a one-character separator: the pieces
\* between the occurrences of sep, empty pieces included.  Piece k lies between
\* the (k-1)-th and the k-th occurrence of sep.
SepPositions(s, sep) == {i \in 1..Len(s) : s[i] = sep}

NthSep(s, sep, k) ==
    IF k = 0 THEN 0
    ELSE IF k > Cardinality(SepPositions(s, sep)) THEN Len(s) + 1
    ELSE CHOOSE p \in SepPositions(s, sep) :
             Cardinality({q \in SepPositions(s, sep) : q <= p}) = k

Split(s, sep) ==
    Computed([k \in 1..(Cardinality(SepPositions(s, sep)) + 1) |->
                 SubSeq(s, NthSep(s, sep, k - 1) + 1, NthSep(s, sep, k) - 1)])

\* parseInt(s, 10): optional sign, then the longest prefix of decimal digits;
\* NaN (here <<>>) when there is no digit.  The result is <<n>>.
RECURSIVE DigitPrefix(_, _, _)
DigitPrefix(s, i, acc) ==
    IF i > Len(s) \/ ~IsDigit(s[i]) THEN acc
    ELSE DigitPrefix(s, i + 1, acc * 10 + DigitVal(s[i]))

parseInt(s) ==
    LET neg   == Len(s) > 0 /\ s[1] = "-"
        start == IF Len(s) > 0 /\ s[1] \in {"-", "+"} THEN 2 ELSE 1
    IN  IF start > Len(s) \/ ~IsDigit(s[start]) THEN <<>>
        ELSE LET n == DigitPrefix(s, start, 0) IN <<IF neg THEN 0 - n ELSE n>>

\* Number -> string for a non-negative integer (template literal `${n}`).
RECURSIVE NumToString(_)
NumToString(n) ==
    IF n < 10 THEN <<DigitChars[n + 1]>>
    ELSE NumToString(n \div 10) \o <<DigitChars[(n % 10) + 1]>>

(***************************************************************************)
(* 32-bit integer operations of JavaScript.  A 32-bit value is kept as its *)
(* ToInt32 image (two's complement, -2^31 .. 2^31-1); `>>> 0` changes the  *)
(* numeric reading of the same 32 bits only, and every consumer of such a  *)
(* value in cidrUtils.ts (&, |, >>, >>>) starts from the bit pattern.      *)
(***************************************************************************)
MinInt32 == 0 - 2147483647 - 1
MaxInt32 == 2147483647

Pow2(n) == 2 ^ n

\* ToInt32(x + p) for an int32 x and 0 <= p < 2^31.
WrapAdd(x, p) ==
    IF x > MaxInt32 - p THEN (x + MinInt32) + (p + MinInt32) ELSE x + p

\* x << k for an int32 x and 0 <= k <= 31: the low 31-k bits move up by k
\* positions and bit 31-k becomes the sign bit.
ShiftLeft(x, k) ==
    IF k = 0 THEN x
    ELSE ((x % Pow2(31 - k)) * Pow2(k))
         + (IF (x \div Pow2(31 - k)) % 2 = 1 THEN MinInt32 ELSE 0)

\* ~x
BitNot(x) == (0 - 1) - x

\* Bitwise combination of two n-bit naturals, bit by bit (n a power of two).
RECURSIVE BitsAnd(_, _, _)
BitsAnd(x, y, n) ==
    IF n = 1 THEN x * y
    ELSE BitsAnd(x % Pow2(n \div 2), y % Pow2(n \div 2), n \div 2)
         + Pow2(n \div 2) * BitsAnd(x \div Pow2(n \div 2), y \div Pow2(n \div 2), n \div 2)

RECURSIVE BitsOr(_, _, _)
BitsOr(x, y, n) ==
    IF n = 1 THEN (IF x + y > 0 THEN 1 ELSE 0)
    ELSE BitsOr(x % Pow2(n \div 2), y % Pow2(n \div 2), n \div 2)
         + Pow2(n \div 2) * BitsOr(x \div Pow2(n \div 2), y \div Pow2(n \div 2), n \div 2)

\* The signed reading of a 16-bit pattern.
Signed16(h) == IF h >= 32768 THEN h - 65536 ELSE h

\* x & y and x | y on int32 values: the low and the high 16 bits separately,
\* the high half carrying the sign.
BitAnd(x, y) ==
    BitsAnd(x % 65536, y % 65536, 16)
    + 65536 * Signed16(BitsAnd((x \div 65536) % 65536, (y \div 65536) % 65536, 16))

BitOr(x, y) ==
    BitsOr(x % 65536, y % 65536, 16)
    + 65536 * Signed16(BitsOr((x \div 65536) % 65536, (y \div 65536) % 65536, 16))

(***************************************************************************)
(* cidrUtils.ts                                                            *)
(***************************************************************************)
\* ip.split('.').reduce((acc, part) => (acc << 8) + parseInt(part, 10), 0) >>> 0
\* The accumulator is kept as its ToInt32 image: the next << 8 and the final
\* >>> 0 both start by that conversion.
RECURSIVE IpReduce(_, _, _)
IpReduce(parts, i, acc) ==
    IF i > Len(parts) THEN acc
    ELSE ByValue(LAMBDA next : IpReduce(parts, i + 1, next),
                 WrapAdd(ShiftLeft(acc, 8), parseInt(parts[i])[1]))

ipToLong(ip) == ByValue(LAMBDA parts : IpReduce(parts, 1, 0), Split(ip, "."))

\* `${(long >>> 24)}.${(long >> 16) & 255}.${(long >> 8) & 255}.${long & 255}`
\* >> n is the floor division by 2^n; & 255 keeps the low eight bits, which
\* is the remainder modulo 256 of a two's complement integer.
longToIp(long) ==
    NumToString((long \div 16777216) % 256) \o <<".">> \o
    NumToString((long \div 65536) % 256) \o <<".">> \o
    NumToString((long \div 256) % 256) \o <<".">> \o
    NumToString(long % 256)

\* /^\d{1,3}\.\d{1,3}\.\d{1,3}\.\d{1,3}$/.test(ip)
IpRegexTest(ip) ==
    LET parts == Split(ip, ".")
    IN  /\ Len(parts) = 4
        /\ \A k \in 1..4 :
              /\ Len(parts[k]) \in 1..3
              /\ \A j \in 1..Len(parts[k]) : IsDigit(parts[k][j])

MAX_SCAN_SIZE == 1024

ErrFormat == "Invalid CIDR format. Expected format: X.X.X.X/Y"
ErrIp     == "Invalid IP address format in CIDR."
ErrMask   == "Invalid CIDR mask. Must be between 1 and 32."
ErrSize   == "Network size is too large. Maximum allowed is 1024 (a /22 network)."
ErrEmpty  == "No scannable hosts in this CIDR range."

\* { ipList: [], error: msg }
CidrError(msg) == [ipList |-> <<>>, error |-> <<msg>>]

\* CidrHosts with the host range starting at the network address for every
\* prefix (the "+ 1" of line 52 lost).
CidrHosts_FromNetwork(ip, mask) ==
    LET hostBits       == 32 - mask
        totalAddresses == Pow2(IF hostBits > 30 THEN 30 ELSE hostBits)
        ipLong         == ipToLong(ip)
        maskLong       == ShiftLeft(0 - 1, (32 - mask) % 32)
        networkLong    == BitAnd(ipLong, maskLong)
        broadcastLong  == BitOr(networkLong, BitNot(maskLong))
        firstHost      == networkLong
        lastHost       == IF mask >= 31 THEN broadcastLong ELSE broadcastLong - 1
    IN  IF totalAddresses > MAX_SCAN_SIZE THEN [ipList |-> <<>>, error |-> <<ErrSize>>]
        ELSE IF mask = 32 THEN [ipList |-> <<longToIp(ipLong)>>, error |-> <<>>]
        ELSE IF firstHost > lastHost THEN [ipList |-> <<>>, error |-> <<ErrEmpty>>]
        ELSE [ipList |-> [i \in 1..(lastHost - firstHost + 1) |-> longToIp(firstHost + (i - 1))],
              error  |-> <<>>]

\* CidrHosts without the special cases of /31 and /32 and without the guard
\* of line 61: the host range always excludes its two ends.
CidrHosts_AlwaysTrimmed(ip, mask) ==
    LET hostBits       == 32 - mask
        totalAddresses == Pow2(IF hostBits > 30 THEN 30 ELSE hostBits)
        ipLong         == ipToLong(ip)
        maskLong       == ShiftLeft(0 - 1, (32 - mask) % 32)
        networkLong    == BitAnd(ipLong, maskLong)
        broadcastLong  == BitOr(networkLong, BitNot(maskLong))
        firstHost      == networkLong + 1
        lastHost       == broadcastLong - 1
    IN  IF totalAddresses > MAX_SCAN_SIZE THEN [ipList |-> <<>>, error |-> <<ErrSize>>]
        ELSE [ipList |-> [i \in 1..(IF firstHost > lastHost THEN 0
                                    ELSE lastHost - firstHost + 1) |->
                             longToIp(firstHost + (i - 1))],
              error  |-> <<>>]

\* The part of parseCidr after the validation of the mask (lines 30-69).
CidrHosts(ip, mask) ==
    LET hostBits       == 32 - mask
        \* Math.pow(2, hostBits); values above 2^30 are only compared with
        \* MAX_SCAN_SIZE, so the power is taken of at most 30.
        totalAddresses == Pow2(IF hostBits > 30 THEN 30 ELSE hostBits)
        ipLong         == ipToLong(ip)
        maskLong       == ShiftLeft(0 - 1, (32 - mask) % 32)
        networkLong    == BitAnd(ipLong, maskLong)
        broadcastLong  == BitOr(networkLong, BitNot(maskLong))
        firstHost      == IF mask >= 31 THEN networkLong ELSE networkLong + 1
        lastHost       == IF mask >= 31 THEN broadcastLong ELSE broadcastLong - 1
    IN  IF totalAddresses > MAX_SCAN_SIZE THEN [ipList |-> <<>>, error |-> <<ErrSize>>]
        ELSE IF mask = 32 THEN [ipList |-> <<longToIp(ipLong)>>, error |-> <<>>]
        ELSE IF firstHost > lastHost THEN [ipList |-> <<>>, error |-> <<ErrEmpty>>]
        ELSE [ipList |-> [i \in 1..(lastHost - firstHost + 1) |-> longToIp(firstHost + (i - 1))],
              error  |-> <<>>]

parseCidr(c) ==
    LET parts   == Split(c, "/")
        ip      == parts[1]
        hasMask == Len(parts) >= 2
    IN  IF ip = <<>> \/ ~hasMask \/ parts[2] = <<>> THEN CidrError(ErrFormat)
        ELSE IF ~IpRegexTest(ip) THEN CidrError(ErrIp)
        ELSE LET mask == parseInt(parts[2])
             IN  IF mask = <<>> \/ mask[1] < 1 \/ mask[1] > 32 THEN CidrError(ErrMask)
                 ELSE CidrHosts(ip, mask[1])

(***************************************************************************)
(* networkService.ts                                                       *)
(***************************************************************************)
COMMON_PORTS == <<21, 22, 23, 25, 53, 80, 110, 143, 443, 445, 993, 995, 1433,
                  1521, 3306, 3389, 5432, 5900, 6379, 8000, 8080, 8443>>

\* const discoveryPorts = [80, 443, 22, 445, 8080, 3389, 5900]
discoveryPorts == <<80, 443, 22, 445, 8080, 3389, 5900>>

\* array.includes(x)
Includes(a, x) == \E i \in 1..Len(a) : a[i] = x

\* array.filter(keep), where Keep is the set of indexes kept: the kept
\* elements in their order.
FilterIdx(a, Keep) ==
    Computed([k \in 1..Cardinality(Keep) |->
                 a[CHOOSE i \in Keep : Cardinality({j \in Keep : j <= i}) = k]])

\* array.sort((a, b) => a - b): element i goes to the place given by the
\* number of smaller elements and of equal elements before it.
SortRank(a, i) ==
    Cardinality({j \in 1..Len(a) : a[j] < a[i] \/ (a[j] = a[i] /\ j < i)}) + 1

\* The sort of line 187 dropped: the array stays in merge order.
SortNumeric_MergeOrder(a) == a

SortNumeric(a) ==
    Computed([k \in 1..Len(a) |-> a[CHOOSE i \in 1..Len(a) : SortRank(a, i) = k]])

\* results.filter(result => result.status === 'open').map(result => result.port)
OpenPortsOf(ports, results) ==
    FilterIdx(ports, {i \in 1..Len(ports) : results[i] = "open"})

\* ports.filter(p => !discoveryPorts.includes(p))
remainingPorts(ports) ==
    FilterIdx(ports, {i \in 1..Len(ports) : ~Includes(discoveryPorts, ports[i])})

\* Promise.all read as Promise.race: the first probe to resolve resolves it.
AllResolved_FirstSettled(results) ==
    Len(results) = 0 \/ \E i \in 1..Len(results) : results[i] # "pending"

\* Promise.all(checks) has resolved: every probe has resolved.
AllResolved(results) == \A i \in 1..Len(results) : results[i] # "pending"

\* allOpenPorts with the Stage-1 ports left out of the merge.
allOpenPorts_FullScanOnly(openDiscoveryPorts, openFullScanPorts) ==
    SortNumeric(openFullScanPorts)

\* [...openDiscoveryPorts, ...openFullScanPorts] sorted numerically (186-187)
allOpenPorts(openDiscoveryPorts, openFullScanPorts) ==
    SortNumeric(openDiscoveryPorts \o openFullScanPorts)

\* The early return of line 171 taken for no outcome of Stage 1.
BailsEarly_Never(openDiscoveryPorts) == FALSE

\* if (openDiscoveryPorts.length === 0) (line 171)
BailsEarly(openDiscoveryPorts) == Len(openDiscoveryPorts) = 0

\* The early return of line 172 with the status of line 189.
OfflineResult_Online(ip) == [ip |-> ip, status |-> "Online", openPorts |-> <<>>]

\* return { ip, status: 'Offline', openPorts: [] } (line 172)
OfflineResult(ip) == [ip |-> ip, status |-> "Offline", openPorts |-> <<>>]

OnlineResult(ip, ports) == [ip |-> ip, status |-> "Online", openPorts |-> ports]

\* scanIp as a function of the ports that answer a WebSocket handshake on
\* the host (Answering): the value its promise resolves to.
scanIp(ip, ports, Answering) ==
    LET openDiscoveryPorts ==
            FilterIdx(discoveryPorts,
                      {i \in 1..Len(discoveryPorts) : discoveryPorts[i] \in Answering})
        rem == remainingPorts(ports)
        openFullScanPorts == FilterIdx(rem, {i \in 1..Len(rem) : rem[i] \in Answering})
    IN  IF BailsEarly(openDiscoveryPorts) THEN OfflineResult(ip)
        ELSE OnlineResult(ip, allOpenPorts(openDiscoveryPorts, openFullScanPorts))

(***************************************************************************)
(* geminiService.ts                                                        *)
(* A reply of the classification service is one of                         *)
(*   [kind |-> "json", category |-> c, analysis |-> a]  a parsed response, *)
(*   [kind |-> "apiError"]   generateContent or JSON.parse throws,         *)
(*   [kind |-> "throws"]     the client constructor of line 32 throws.     *)
(* The services array of a response is carried as <<>>.                    *)
(***************************************************************************)
AnalysisError      == "An error occurred while analyzing the device with AI. The API might be unavailable or the key may be invalid."
AnalysisNoKey      == "Error: Gemini API key is not configured."
AnalysisNoPorts    == "No open ports detected to analyze."
AnalysisIncomplete == "AI analysis was incomplete."

\* x || fallback for strings: the empty string is falsy.
OrElse(x, fallback) == IF x = "" THEN fallback ELSE x

\* process.env.API_KEY of the build ("" when it is not set).
API_KEY == "key"

\* The value analyzeDeviceByPorts resolves to; <<>> when its promise rejects.
analyzeDeviceByPorts(device, reply) ==
    IF API_KEY = ""
    THEN <<[analysis |-> AnalysisNoKey, category |-> "Error", services |-> <<>>]>>
    ELSE IF Len(device.openPorts) = 0
    THEN <<[analysis |-> AnalysisNoPorts, category |-> "Unknown", services |-> <<>>]>>
    ELSE IF reply.kind = "throws" THEN <<>>
    ELSE IF reply.kind = "apiError"
    THEN <<[analysis |-> AnalysisError, category |-> "Error", services |-> <<>>]>>
    ELSE <<[analysis |-> OrElse(reply.analysis, AnalysisIncomplete),
            category |-> OrElse(reply.category, "Unknown"),
            services |-> <<>>]>>

(***************************************************************************)
(* App (part_000, lines 1-259)                                             *)
(***************************************************************************)
\* ip.split('.').reduce((acc, part) => (acc << 8) + parseInt(part, 10), 0)
\* No `>>> 0` here: the key is the signed 32-bit reading.
ipToSortable(ip) == ByValue(LAMBDA parts : IpReduce(parts, 1, 0), Split(ip, "."))

\* [...prev, newDevice] without the sort: the order of insertion.
SortByIp_InsertionOrder(a) == a

\* [...prev, newDevice].sort((a, b) => ipToSortable(a.ip) - ipToSortable(b.ip))
\* A stable sort: element i goes to the place given by the number of elements
\* with a smaller key and of elements with an equal key before it.
SortKeys(a) == Computed([i \in 1..Len(a) |-> ipToSortable(a[i].ip)])

SortRanks(key) ==
    Computed([i \in 1..Len(key) |->
                 Cardinality({j \in 1..Len(key) :
                     key[j] < key[i] \/ (key[j] = key[i] /\ j < i)}) + 1])

SortPlaced(a, rank) ==
    Computed([k \in 1..Len(a) |-> a[CHOOSE i \in 1..Len(a) : rank[i] = k]])

SortByIp(a) ==
    ByValue(LAMBDA arr :
                ByValue(LAMBDA key :
                            ByValue(LAMBDA rank : SortPlaced(arr, rank), SortRanks(key)),
                        SortKeys(arr)),
            a)

\* The Map built from the classified devices only.
DevicesMap_ClassifiedOnly(devs) ==
    [ip \in {devs[i].ip : i \in {j \in 1..Len(devs) : ~devs[j].isAnalyzing}} |->
        devs[CHOOSE i \in 1..Len(devs) : devs[i].ip = ip]]

\* new Map(devices.map(d => [d.ip, d])): for an ip, the last device holding it.
DevicesMap(devs) ==
    [ip \in {devs[i].ip : i \in 1..Len(devs)} |->
        devs[CHOOSE i \in 1..Len(devs) :
                 /\ devs[i].ip = ip
                 /\ \A j \in (i + 1)..Len(devs) : devs[j].ip # ip]]

\* currentDevicesMap.get(ip): <<>> for undefined.
MapGet(m, ip) == IF ip \in DOMAIN m THEN <<m[ip]>> ELSE <<>>

\* String.prototype.toLowerCase on the category names of the model.
toLowerCase(cat) ==
    CASE cat \in {"Server", "SERVER", "server"} -> "server"
      [] cat \in {"Workstation", "workstation"} -> "workstation"
      [] cat \in {"Mobile Device", "mobile device"} -> "mobile device"
      [] cat \in {"Router", "router"} -> "router"
      [] cat \in {"NAS", "nas"} -> "nas"
      [] cat \in {"Printer", "printer"} -> "printer"
      [] cat \in {"IoT Device", "iot device"} -> "iot device"
      [] cat = "Unknown" -> "unknown"
      [] cat = "Error" -> "error"
      [] cat = "Analyzing..." -> "analyzing..."
      [] OTHER -> cat

\* getCategoryGroup (lines 68-75); "null" for null.
getCategoryGroup(cat) ==
    LET lowerCat == toLowerCase(cat)
    IN  IF lowerCat \in {"server", "workstation", "mobile device"} THEN "Computing"
        ELSE IF lowerCat \in {"router", "nas"} THEN "Networking"
        ELSE IF lowerCat \in {"printer"} THEN "Peripheral"
        ELSE IF lowerCat \in {"iot device"} THEN "IoT"
        ELSE "null"

\* The rule of the earlier App (lines 339-346): both groups must be known.
conflictOf_BothGroupsKnown(oldDevice, category) ==
    IF oldDevice # <<>> /\ oldDevice[1].category # "" /\ category # ""
       /\ getCategoryGroup(oldDevice[1].category) # "null"
       /\ getCategoryGroup(category) # "null"
       /\ getCategoryGroup(oldDevice[1].category) # getCategoryGroup(category)
    THEN <<[previousCategory |-> oldDevice[1].category]>>
    ELSE <<>>

\* The rule without the comparison of the groups: any change of category.
conflictOf_AnyChange(oldDevice, category) ==
    IF oldDevice # <<>> /\ oldDevice[1].category # "" /\ category # ""
       /\ oldDevice[1].category # category
    THEN <<[previousCategory |-> oldDevice[1].category]>>
    ELSE <<>>

\* The conflict check (lines 66-88): <<>> for undefined.
conflictOf(oldDevice, category) ==
    IF oldDevice # <<>> /\ oldDevice[1].category # "" /\ category # ""
       /\ oldDevice[1].category # category
       /\ getCategoryGroup(oldDevice[1].category) # getCategoryGroup(category)
    THEN <<[previousCategory |-> oldDevice[1].category]>>
    ELSE <<>>

\* const newDevice = { ...scanResult, isAnalyzing: true, ... } (line 56)
newDevice(result) ==
    [ip |-> result.ip, status |-> result.status, openPorts |-> result.openPorts,
     analysis |-> "Analyzing with AI...", isAnalyzing |-> TRUE,
     category |-> "Analyzing...", services |-> <<>>, conflict |-> <<>>]

\* prev.map(d => d.ip === ip ? { ...d, analysis, category, services,
\*                               isAnalyzing: false, conflict } : d)  (lines 90-92)
ApplyAnalysis(prev, ip, a, conflict) ==
    [i \in 1..Len(prev) |->
        IF prev[i].ip = ip
        THEN [prev[i] EXCEPT !.analysis = a.analysis, !.category = a.category,
                             !.services = a.services, !.isAnalyzing = FALSE,
                             !.conflict = conflict]
        ELSE prev[i]]

\* The catch branch written with filter: the device of the failed
\* classification is taken out of the collection.
ApplyFailure_DropsDevice(prev, ip) ==
    FilterIdx(prev, {i \in 1..Len(prev) : prev[i].ip # ip})

\* prev.map(d => d.ip === ip ? { ...d, analysis: 'AI analysis failed.',
\*                 category: 'Error', services: [], isAnalyzing: false } : d)  (95-97)
ApplyFailure(prev, ip) ==
    [i \in 1..Len(prev) |->
        IF prev[i].ip = ip
        THEN [prev[i] EXCEPT !.analysis = "AI analysis failed.", !.category = "Error",
                             !.services = <<>>, !.isAnalyzing = FALSE]
        ELSE prev[i]]

(***************************************************************************)
(* States of the parts that are at rest.                                   *)
(***************************************************************************)
\* The CIDR field as ScanForm renders it first (ScanForm.tsx:21).
DefaultCidr == NumToString(192) \o <<".">> \o NumToString(168) \o <<".">> \o
               NumToString(1) \o <<".">> \o NumToString(0) \o <<"/">> \o NumToString(24)

\* The timeout field as ScanForm renders it first (ScanForm.tsx:22).
DefaultTimeout == NumToString(800)

CidrIdle == cidr = DefaultCidr /\ cidrResult = <<>>

ScanIdle ==
    /\ probe = <<>>
    /\ stability = <<>>
    /\ modal = <<>>
    /\ scanHost = <<>>
    /\ scanPorts = <<>>
    /\ scanStage = "idle"
    /\ discoveryResults = <<>>
    /\ fullScanResults = <<>>
    /\ probeCount = 0
    /\ scanResult = <<>>

\* App after its first render (part_000:22-28); no handleStartScan call yet.
AppIdle ==
    /\ devices = <<>>
    /\ previousScanDevices = <<>>
    /\ isScanning = FALSE
    /\ scanProgress = [current |-> 0, total |-> 0, currentIp |-> <<>>, found |-> 0]
    /\ lastScanParams = <<>>
    /\ queue = <<>>
    /\ workers = <<>>
    /\ foundDevicesCount = 0
    /\ tasks = {}
    /\ gen = 0
    /\ consoleErrors = {}
    /\ formError = ""

(***************************************************************************)
(* SpecCidr: parseCidr applied to one text.                                *)
(***************************************************************************)
MkCidr(o1, o2, o3, o4, m) ==
    o1 \o <<".">> \o o2 \o <<".">> \o o3 \o <<".">> \o o4 \o <<"/">> \o m

\* Octet texts: in range, out of range, not a number, empty, too long.
FirstOctets == {NumToString(10), NumToString(127), NumToString(128),
                NumToString(255), NumToString(256), <<"a">>}
LastOctets  == {NumToString(0), NumToString(1), NumToString(255), NumToString(999),
                <<"1", "x">>, <<>>, NumToString(1000)}
\* Prefix texts: 0, 33, the size limit on both sides, the special cases 31
\* and 32, not a number, negative, empty.
SmallPrefixes == {NumToString(29), NumToString(30), NumToString(31), NumToString(32)}
BadPrefixes   == {NumToString(0), NumToString(1), NumToString(21), NumToString(33),
                  <<"x">>, <<"-", "1">>, <<>>}
LargePrefixes == {NumToString(22), NumToString(24)}

CidrInputs ==
    {MkCidr(o1, NumToString(0), NumToString(3), o4, m) :
        o1 \in FirstOctets, o4 \in LastOctets, m \in SmallPrefixes \cup BadPrefixes}
    \cup {MkCidr(o1, NumToString(255), NumToString(254), NumToString(7), m) :
        o1 \in {NumToString(10), NumToString(128), NumToString(255)}, m \in LargePrefixes}
    \cup {NumToString(10) \o <<".">> \o NumToString(0) \o <<".">> \o NumToString(0)
              \o <<".">> \o NumToString(1),
          <<"/">> \o NumToString(24),
          <<>>,
          MkCidr(NumToString(10), NumToString(0), NumToString(0), NumToString(1),
                 NumToString(30)) \o <<"/">> \o NumToString(8)}

InitCidr ==
    /\ cidr \in CidrInputs
    /\ cidrResult = <<>>
    /\ ScanIdle
    /\ AppIdle
    /\ timeout = DefaultTimeout
    /\ scansLeft = 0
    /\ oracle = {}

\* const { ipList, error } = parseCidr(cidr)
ParseCidr ==
    /\ cidrResult = <<>>
    /\ cidrResult' = <<parseCidr(cidr)>>
    /\ UNCHANGED <<cidr, scanVars, appVars>>

NextCidr == ParseCidr

SpecCidr == InitCidr /\ [][NextCidr]_vars

(***************************************************************************)
(* Reading of a CIDR text used to state the properties of parseCidr.       *)
(***************************************************************************)
AllDigits(t) == Len(t) >= 1 /\ \A j \in 1..Len(t) : IsDigit(t[j])

\* The text has the shape A.B.C.D/N: one slash, four pieces before it.
CidrShape(c) ==
    /\ Len(Split(c, "/")) = 2
    /\ Len(Split(Split(c, "/")[1], ".")) = 4

InOctet(c, k) == Split(Split(c, "/")[1], ".")[k]
InPrefix(c)   == Split(c, "/")[2]

\* A valid input: four decimal octets in 0..255 and a decimal prefix in 1..32.
ValidCidr(c) ==
    /\ CidrShape(c)
    /\ \A k \in 1..4 : /\ AllDigits(InOctet(c, k))
                       /\ Len(InOctet(c, k)) <= 3
                       /\ parseInt(InOctet(c, k))[1] <= 255
    /\ AllDigits(InPrefix(c))
    /\ parseInt(InPrefix(c))[1] \in 1..32

\* Numeric value of a dotted quad, most significant octet first, as the
\* tuple of its octets (compared lexicographically).
OctetsOf(s) == [k \in 1..4 |-> parseInt(Split(s, ".")[k])[1]]

IpLess(s, t) ==
    LET a == OctetsOf(s)
        b == OctetsOf(t)
    IN  \E k \in 1..4 : a[k] < b[k] /\ \A j \in 1..(k - 1) : a[j] = b[j]

ExpectedHostCount(n) ==
    IF n <= 30 THEN Pow2(32 - n) - 2 ELSE IF n = 31 THEN 2 ELSE 1

\* C9: for every valid A.B.C.D/N that parseCidr accepts, the host list has
\* 2^(32-N) - 2 entries for N <= 30, 2 for N = 31 and 1 for N = 32, and is
\* strictly ascending by the unsigned numeric value of the addresses.
C9_HostCountAndOrder ==
    (cidrResult # <<>> /\ ValidCidr(cidr) /\ cidrResult[1].error = <<>>) =>
        LET l == cidrResult[1].ipList
        IN  /\ Len(l) = ExpectedHostCount(parseInt(InPrefix(cidr))[1])
            /\ \A i \in 1..(Len(l) - 1) : IpLess(l[i], l[i + 1])

\* A /22 at or above 128.0.0.0 has been resolved.
C9_Witness ==
    /\ cidrResult # <<>>
    /\ ValidCidr(cidr)
    /\ cidrResult[1].error = <<>>
    /\ parseInt(InOctet(cidr, 1))[1] >= 128
    /\ parseInt(InPrefix(cidr))[1] = 22
    /\ Len(cidrResult[1].ipList) = 1022

\* The cases of an A.B.C.D/N text that C10 lists.
PrefixZeroOr33(c)  == AllDigits(InPrefix(c)) /\ parseInt(InPrefix(c))[1] \in {0, 33}
NonNumericOctet(c) == \E k \in 1..4 : ~AllDigits(InOctet(c, k))
OctetAbove255(c)   == \E k \in 1..4 : /\ AllDigits(InOctet(c, k))
                                      /\ parseInt(InOctet(c, k))[1] > 255
PrefixTooWide(c)   == AllDigits(InPrefix(c)) /\ parseInt(InPrefix(c))[1] < 22

\* C10: parseCidr returns an error and an empty host list when the prefix is
\* 0 or 33, an octet is not a number, an octet is greater than 255, or the
\* prefix implies more than 1024 addresses (N < 22).
C10_RejectsInvalid ==
    (/\ cidrResult # <<>>
     /\ CidrShape(cidr)
     /\ \/ PrefixZeroOr33(cidr)
        \/ NonNumericOctet(cidr)
        \/ OctetAbove255(cidr)
        \/ PrefixTooWide(cidr))
    => (cidrResult[1].error # <<>> /\ cidrResult[1].ipList = <<>>)

(***************************************************************************)
(* SpecScanIp: one call of scanIp, probe by probe.  Every checkPort promise *)
(* resolves once, by the first of onopen, onerror and the timer            *)
(* (networkService.ts:39-69); the probes of a stage resolve in any order.  *)
(***************************************************************************)
ScanHosts == {longToIp(ipToLong(NumToString(10) \o <<".">> \o NumToString(0) \o <<".">>
                                \o NumToString(0) \o <<".">> \o NumToString(1)))}

\* Port lists passed to scanIp: none, discovery ports only, a mix in
\* descending order, no discovery port at all, a repeated port.
ScanPortLists == {<<>>, <<443, 80>>, <<8443, 3306, 443, 21>>, <<6379, 25>>, <<21, 80, 21>>}

Pending(n) == [i \in 1..n |-> "pending"]

InitScanIp ==
    /\ probe = <<>>
    /\ stability = <<>>
    /\ modal = <<>>
    /\ scanHost \in ScanHosts
    /\ scanPorts \in ScanPortLists
    /\ scanStage = "idle"
    /\ discoveryResults = <<>>
    /\ fullScanResults = <<>>
    /\ probeCount = 0
    /\ scanResult = <<>>
    /\ CidrIdle
    /\ AppIdle
    /\ timeout = DefaultTimeout
    /\ scansLeft = 0
    /\ oracle = {}

\* scanIp up to its first await: the seven discovery probes are issued.
ScanIpCall ==
    /\ scanStage = "idle"
    /\ scanStage' = "stage1"
    /\ discoveryResults' = Pending(Len(discoveryPorts))
    /\ probeCount' = probeCount + Len(discoveryPorts)
    /\ UNCHANGED <<probe, stability, modal, scanHost, scanPorts, fullScanResults, scanResult, cidrVars, appVars>>

\* The first event of probe i of the stage in progress resolves its promise
\* with `status`; later events find resolved = true and do nothing.
Resolve(i, status) ==
    \/ /\ scanStage = "stage1"
       /\ i \in 1..Len(discoveryResults)
       /\ discoveryResults[i] = "pending"
       /\ discoveryResults' = [discoveryResults EXCEPT ![i] = status]
       /\ UNCHANGED fullScanResults
    \/ /\ scanStage = "stage2"
       /\ i \in 1..Len(fullScanResults)
       /\ fullScanResults[i] = "pending"
       /\ fullScanResults' = [fullScanResults EXCEPT ![i] = status]
       /\ UNCHANGED discoveryResults

\* socket.onopen (lines 52-59)
SocketOpen ==
    /\ \E i \in 1..Len(discoveryPorts) : Resolve(i, "open")
    /\ UNCHANGED <<probe, stability, modal, scanHost, scanPorts, scanStage, probeCount, scanResult, cidrVars, appVars>>

\* socket.onerror (lines 61-67)
SocketError ==
    /\ \E i \in 1..Len(discoveryPorts) : Resolve(i, "closed")
    /\ UNCHANGED <<probe, stability, modal, scanHost, scanPorts, scanStage, probeCount, scanResult, cidrVars, appVars>>

\* the setTimeout callback (lines 44-50)
ProbeTimeout ==
    /\ \E i \in 1..Len(discoveryPorts) : Resolve(i, "closed")
    /\ UNCHANGED <<probe, stability, modal, scanHost, scanPorts, scanStage, probeCount, scanResult, cidrVars, appVars>>

\* The continuation of `await Promise.all(discoveryChecks)` (lines 164-180):
\* the early return, or the Stage-2 probes are issued.
Stage1Resolved ==
    /\ scanStage = "stage1"
    /\ AllResolved(discoveryResults)
    /\ IF BailsEarly(OpenPortsOf(discoveryPorts, discoveryResults))
       THEN /\ scanStage' = "returned"
            /\ scanResult' = <<OfflineResult(scanHost)>>
            /\ UNCHANGED <<fullScanResults, probeCount>>
       ELSE /\ scanStage' = "stage2"
            /\ fullScanResults' = Pending(Len(remainingPorts(scanPorts)))
            /\ probeCount' = probeCount + Len(remainingPorts(scanPorts))
            /\ UNCHANGED scanResult
    /\ UNCHANGED <<probe, stability, modal, scanHost, scanPorts, discoveryResults, cidrVars, appVars>>

\* The continuation of `await Promise.all(fullScanChecks)` (lines 180-193).
Stage2Resolved ==
    /\ scanStage = "stage2"
    /\ AllResolved(fullScanResults)
    /\ scanStage' = "returned"
    /\ scanResult' = <<OnlineResult(scanHost,
                          allOpenPorts(OpenPortsOf(discoveryPorts, discoveryResults),
                                       OpenPortsOf(remainingPorts(scanPorts), fullScanResults)))>>
    /\ UNCHANGED <<probe, stability, modal, scanHost, scanPorts, discoveryResults, fullScanResults, probeCount,
                   cidrVars, appVars>>

NextScanIp ==
    \/ ScanIpCall
    \/ SocketOpen
    \/ SocketError
    \/ ProbeTimeout
    \/ Stage1Resolved
    \/ Stage2Resolved

SpecScanIp == InitScanIp /\ [][NextScanIp]_vars

\* C1: whatever the port list and the outcomes of the probes, the result of
\* scanIp is Offline exactly when its openPorts list is empty; an Online
\* result lists at least one port.
C1_OfflineIffNoOpenPorts ==
    scanResult # <<>> =>
        /\ scanResult[1].status \in {"Online", "Offline"}
        /\ (scanResult[1].status = "Offline") <=> (scanResult[1].openPorts = <<>>)

\* scanIp returned Online although no Stage-2 port was open.
C1_Witness ==
    /\ scanResult # <<>>
    /\ scanResult[1].status = "Online"
    /\ Len(fullScanResults) = 2
    /\ \A i \in 1..2 : fullScanResults[i] = "closed"
    /\ Len(scanResult[1].openPorts) = 1

\* C2: when all seven discovery probes resolve closed, scanIp returns
\* Offline and has issued exactly 7 probes, none of them of Stage 2,
\* whatever the port list is.
C2_NoStage2WhenAllClosed ==
    (/\ Len(discoveryResults) = 7
     /\ \A i \in 1..7 : discoveryResults[i] = "closed"
     /\ scanStage # "stage1")
    => /\ scanStage = "returned"
       /\ scanResult = <<OfflineResult(scanHost)>>
       /\ probeCount = 7
       /\ fullScanResults = <<>>

\* All seven discovery probes closed, for a list with non-discovery ports.
C2_Witness ==
    /\ scanStage = "returned"
    /\ \A i \in 1..7 : discoveryResults[i] = "closed"
    /\ Len(remainingPorts(scanPorts)) = 3
    /\ probeCount = 7

(***************************************************************************)
(* Spec: the App.  An action is one task of the event loop: an event       *)
(* handler, or the continuation of an await together with the promise      *)
(* continuations it makes runnable.                                        *)
(***************************************************************************)
\* const concurrencyLimit = 20 (part_000:114), scaled to the pool of the model.
concurrencyLimit == MaxWorkers

\* scanProgress.currentIp after the run: 'Scan Complete'.  The label is kept
\* as a one-element sequence, an ip being a sequence of characters.
ScanCompleteLabel == <<"Scan Complete">>

ErrTimeout == "Invalid timeout. Must be a number between 100 and 5000 ms."

Min(a, b) == IF a < b THEN a ELSE b

\* A worker that awaits processIp(ip), scanIp being in its Stage 1.
AwaitingStage1(ip) == <<[ip |-> ip, stage |-> "stage1", answering |-> {}]>>

\* Promise.all(workers) has resolved: every runWorker call has returned.
\* Read as "the queue is empty".
AllWorkersReturned_QueueEmpty(ws, q) == q = <<>>

\* Promise.all(workers) read as Promise.race: one runWorker call has
\* returned.
AllWorkersReturned_OneReturned(ws, q) == \E w \in 1..Len(ws) : ws[w] = <<>>

\* Promise.all(workers) has resolved: every runWorker call has returned.
AllWorkersReturned(ws, q) == \A w \in 1..Len(ws) : ws[w] = <<>>

\* The number of runWorker calls, one per address as in the earlier App
\* (ipList.map(processIp), lines 360-361).
workerCalls_OnePerAddress(ipList) == Len(ipList)

\* Array(concurrencyLimit).fill(null).map(() => runWorker()): the number of
\* runWorker calls (line 126).
workerCalls(ipList) == concurrencyLimit

\* The updater counting every address whose scan resolved as found.
progressAfter_CountsEveryResult(prev, deviceFound, threw) ==
    [prev EXCEPT !.current = prev.current + 1,
                 !.found = prev.found + (IF threw THEN 0 ELSE 1)]

\* The updater of the finally block run by the classification task: an
\* address whose host is online is not counted by processIp.
progressAfter_CountsAfterAnalysis(prev, deviceFound, threw) ==
    IF deviceFound THEN prev ELSE [prev EXCEPT !.current = prev.current + 1]

\* The updater of the finally block placed at the end of the try block: a
\* scan that throws is not counted.
progressAfter_SkipsFailures(prev, deviceFound, threw) ==
    IF threw THEN prev
    ELSE [prev EXCEPT !.current = prev.current + 1,
                      !.found = prev.found + (IF deviceFound THEN 1 ELSE 0)]

\* prev => ({ ...prev, current: prev.current + 1,
\*            found: prev.found + (deviceFound ? 1 : 0) })  (lines 105-109)
progressAfter(prev, deviceFound, threw) ==
    [prev EXCEPT !.current = prev.current + 1,
                 !.found = prev.found + (IF deviceFound THEN 1 ELSE 0)]

\* The label written by the finally branch of processIp: the address that
\* has just finished.
currentIpAfter_JustFinished(label, finished, pulled, done) ==
    IF done THEN ScanCompleteLabel ELSE finished

\* scanProgress.currentIp after an address has finished: the finally branch
\* (lines 105-109) keeps it; the next processIp call of the worker, if the
\* queue gave it an address, sets it to that address (line 47); the end of
\* the run sets it to 'Scan Complete' (line 131).
currentIpAfter(label, finished, pulled, done) ==
    IF done THEN ScanCompleteLabel
    ELSE IF pulled # <<>> THEN pulled[1]
    ELSE label

\* handleStartScan with the snapshot taken after setDevices([]): the
\* previous scan is always empty.
handleStartScan_SnapshotAfterClear(ipList, timeoutMs) ==
    LET n == Min(workerCalls(ipList), Len(ipList))
        ws == [w \in 1..workerCalls(ipList) |->
                  IF w <= n THEN AwaitingStage1(ipList[w]) ELSE <<>>]
        q == SubSeq(ipList, n + 1, Len(ipList))
        done == AllWorkersReturned(ws, q)
    IN  /\ gen' = gen + 1
        /\ lastScanParams' = <<[ipList |-> ipList, timeout |-> timeoutMs]>>
        /\ previousScanDevices' = DevicesMap(<<>>)
        /\ isScanning' = ~done
        /\ devices' = <<>>
        /\ scanProgress' = [current |-> 0, total |-> Len(ipList), found |-> 0,
                            currentIp |-> IF done THEN ScanCompleteLabel ELSE ipList[n]]
        /\ foundDevicesCount' = 0
        /\ queue' = q
        /\ workers' = ws
        /\ UNCHANGED <<tasks, consoleErrors>>

\* handleStartScan with runWorker reading queue[0] before the first await
\* and removing it afterwards: the calls that find the queue non-empty all
\* start on the first address.
handleStartScan_WorkersShareFirst(ipList, timeoutMs) ==
    LET n == Min(workerCalls(ipList), Len(ipList))
        ws == [w \in 1..workerCalls(ipList) |->
                  IF w <= n THEN AwaitingStage1(ipList[1]) ELSE <<>>]
        q == SubSeq(ipList, n + 1, Len(ipList))
        done == AllWorkersReturned(ws, q)
    IN  /\ gen' = gen + 1
        /\ lastScanParams' = <<[ipList |-> ipList, timeout |-> timeoutMs]>>
        /\ previousScanDevices' = DevicesMap(devices)
        /\ isScanning' = ~done
        /\ devices' = <<>>
        /\ scanProgress' = [current |-> 0, total |-> Len(ipList), found |-> 0,
                            currentIp |-> IF done THEN ScanCompleteLabel ELSE ipList[n]]
        /\ foundDevicesCount' = 0
        /\ queue' = q
        /\ workers' = ws
        /\ UNCHANGED <<tasks, consoleErrors>>

\* handleStartScan({ ipList, timeout }) up to `await Promise.all(workers)`
\* (lines 30-127): each of the concurrencyLimit runWorker calls runs up to its
\* first await, so the first addresses of the queue are pulled in order and
\* the later calls find the queue empty and return.
handleStartScan(ipList, timeoutMs) ==
    LET n == Min(workerCalls(ipList), Len(ipList))
        ws == [w \in 1..workerCalls(ipList) |->
                  IF w <= n THEN AwaitingStage1(ipList[w]) ELSE <<>>]
        q == SubSeq(ipList, n + 1, Len(ipList))
        done == AllWorkersReturned(ws, q)
    IN  /\ gen' = gen + 1
        /\ lastScanParams' = <<[ipList |-> ipList, timeout |-> timeoutMs]>>
        /\ previousScanDevices' = DevicesMap(devices)
        /\ isScanning' = ~done
        /\ devices' = <<>>
        /\ scanProgress' = [current |-> 0, total |-> Len(ipList), found |-> 0,
                            currentIp |-> IF done THEN ScanCompleteLabel ELSE ipList[n]]
        /\ foundDevicesCount' = 0
        /\ queue' = q
        /\ workers' = ws
        /\ UNCHANGED <<tasks, consoleErrors>>

\* The value of <input type="number"> (ScanForm.tsx:133-141) is the empty
\* text or a valid floating-point number: an optional "-", digits with an
\* optional fraction, an optional exponent.  FloatParts gives the text
\* before and after the exponent mark.
FloatParts(t) ==
    LET marks == {i \in 1..Len(t) : t[i] \in {"e", "E"}}
    IN  IF marks = {} THEN <<t, <<"0">>>>
        ELSE LET e == CHOOSE i \in marks : \A j \in marks : i <= j
             IN  <<SubSeq(t, 1, e - 1), SubSeq(t, e + 1, Len(t))>>

Unsigned(x, signs) == IF x # <<>> /\ x[1] \in signs THEN Tail(x) ELSE x

Digits(x) == Len(x) >= 1 /\ \A j \in 1..Len(x) : IsDigit(x[j])

IsFloat(t) ==
    LET m == Split(Unsigned(FloatParts(t)[1], {"-"}), ".")
    IN  /\ Digits(Unsigned(FloatParts(t)[2], {"-", "+"}))
        /\ \/ Len(m) = 1 /\ Digits(m[1])
           \/ Len(m) = 2 /\ Digits(m[2]) /\ (m[1] = <<>> \/ Digits(m[1]))

\* The number a valid text denotes, as the fraction num / den.
FloatValue(t) ==
    LET mant == FloatParts(t)[1]
        m    == Split(Unsigned(mant, {"-"}), ".")
        frac == IF Len(m) = 2 THEN m[2] ELSE <<>>
        n    == parseInt(m[1] \o frac)[1]
        e    == parseInt(FloatParts(t)[2])[1]
    IN  [num |-> (IF mant[1] = "-" THEN 0 - n ELSE n) * (IF e > 0 THEN 10 ^ e ELSE 1),
         den |-> (10 ^ Len(frac)) * (IF e < 0 THEN 10 ^ (0 - e) ELSE 1)]

\* The form with its constraint validation switched off (noValidate).
TimeoutFieldValid_NoValidate(t) == TRUE

\* The constraint validation of the timeout field, which the browser runs
\* before it fires the submit event: min="100" max="5000" step="100"
\* (ScanForm.tsx:138-140); the field is not required, so the empty text is
\* valid.
TimeoutFieldValid(t) ==
    \/ t = <<>>
    \/ /\ IsFloat(t)
       /\ FloatValue(t).num >= 100 * FloatValue(t).den
       /\ FloatValue(t).num <= 5000 * FloatValue(t).den
       /\ (FloatValue(t).num - 100 * FloatValue(t).den) % (100 * FloatValue(t).den) = 0

\* The operator presses Start Scan: the form is validated and, when it is
\* valid, ScanForm.handleSubmit runs (ScanForm.tsx:29-46, 78); the button is
\* disabled while isScanning (ScanForm.tsx:155).
HandleSubmit ==
    /\ ~isScanning
    /\ scansLeft > 0
    /\ scansLeft' = scansLeft - 1
    /\ LET parsed    == parseCidr(cidr)
           timeoutMs == parseInt(timeout)
       IN  IF ~TimeoutFieldValid(timeout)
           THEN UNCHANGED <<formError, devices, previousScanDevices, isScanning,
                            scanProgress, lastScanParams, queue, workers,
                            foundDevicesCount, tasks, gen, consoleErrors>>
           ELSE IF parsed.error # <<>>
           THEN /\ formError' = parsed.error[1]
                /\ UNCHANGED <<devices, previousScanDevices, isScanning, scanProgress,
                               lastScanParams, queue, workers, foundDevicesCount,
                               tasks, gen, consoleErrors>>
           ELSE IF timeoutMs = <<>> \/ timeoutMs[1] < 100 \/ timeoutMs[1] > 5000
           THEN /\ formError' = ErrTimeout
                /\ UNCHANGED <<devices, previousScanDevices, isScanning, scanProgress,
                               lastScanParams, queue, workers, foundDevicesCount,
                               tasks, gen, consoleErrors>>
           ELSE /\ formError' = ""
                /\ handleStartScan(parsed.ipList, timeoutMs[1])
    /\ UNCHANGED <<cidr, cidrResult, timeout, oracle, scanVars>>

\* The Refresh Scan button rendered whenever a run has been started.
RefreshOffered_WhileScanning ==
    lastScanParams # <<>>

\* {!isScanning && lastScanParams && ( ... <button onClick={handleRefreshScan}>
\* (part_000:192-204)
RefreshOffered ==
    ~isScanning /\ lastScanParams # <<>>

\* handleRefreshScan (lines 139-143); the button is rendered only when
\* !isScanning && lastScanParams (line 192).
HandleRefreshScan ==
    /\ RefreshOffered
    /\ scansLeft > 0
    /\ scansLeft' = scansLeft - 1
    /\ handleStartScan(lastScanParams[1].ipList, lastScanParams[1].timeout)
    /\ UNCHANGED <<cidr, cidrResult, timeout, formError, oracle, scanVars>>

\* The sets of ports that answer a handshake on a host: none, one that is
\* no discovery port, a discovery port together with another port.
AnswerSets == {{}, {3306}, {3306, 80, 22}}

\* scanIp(ip, COMMON_PORTS, timeout) for each of the answer sets: the value
\* does not depend on ip but for its ip field.
ScanOutcomes == {<<A, scanIp(<<>>, COMMON_PORTS, A)>> : A \in AnswerSets}

\* await scanIp(ip, COMMON_PORTS, timeout) (part_000:51) on a host where the
\* ports of Answering answer.
scanIpOf(ip, Answering) ==
    [(CHOOSE t \in ScanOutcomes : t[1] = Answering)[2] EXCEPT !.ip = ip]

\* The guard of the insertion passing every result scanIp resolved to.
IsOnline_AnyResult(result) ==
    result # <<>>

\* if (scanResult.status === 'Online') (part_000:53), reached only when
\* `await scanIp(...)` did not throw.  result is <<>> when it threw.
IsOnline(result) ==
    result # <<>> /\ result[1].status = "Online"

\* A queue that hands out its last element: Array.prototype.pop in place
\* of shift.
shift_Pop(q) ==
    [value |-> q[Len(q)], rest |-> SubSeq(q, 1, Len(q) - 1)]

\* queue.shift() (part_000:119) on a non-empty queue: the first element is
\* removed and returned.
shift(q) ==
    [value |-> Head(q), rest |-> Tail(q)]

\* processIp after `await scanIp(...)` (lines 51-110) for worker w, followed
\* by the loop of runWorker (lines 118-123) and, when this was the last
\* worker to return, by the rest of handleStartScan (lines 129-131).
\* result is <<>> when scanIp rejected, <<scanResult>> otherwise.
AfterScan(w, result) ==
    LET ip     == workers[w][1].ip
        online == IsOnline(result)
        pulls  == queue # <<>>
        ws     == [workers EXCEPT ![w] = IF pulls THEN AwaitingStage1(shift(queue).value)
                                                ELSE <<>>]
        q      == IF pulls THEN shift(queue).rest ELSE queue
        done   == AllWorkersReturned(ws, q)
    IN  /\ foundDevicesCount' = foundDevicesCount + (IF online THEN 1 ELSE 0)
        /\ devices' = IF online THEN SortByIp(Append(devices, newDevice(result[1])))
                      ELSE devices
        /\ tasks' = IF online
                    THEN tasks \cup {[gen |-> gen, ip |-> ip, scanResult |-> result[1],
                                      currentDevicesMap |-> previousScanDevices]}
                    ELSE tasks
        /\ scanProgress' =
               [progressAfter(scanProgress, online, result = <<>>)
                   EXCEPT !.currentIp = currentIpAfter(scanProgress.currentIp, ip,
                                                       IF pulls THEN <<shift(queue).value>>
                                                       ELSE <<>>, done)]
        /\ workers' = ws
        /\ queue' = q
        /\ isScanning' = IF done THEN FALSE ELSE isScanning
        /\ consoleErrors' = IF result = <<>> THEN consoleErrors \cup {ip} ELSE consoleErrors
        /\ UNCHANGED <<previousScanDevices, lastScanParams, gen, timeout, formError,
                       scansLeft, oracle, cidrVars, scanVars>>

\* Stage 1 of the scanIp call of worker w resolves (networkService.ts:164-180):
\* with no discovery port open scanIp returns Offline, otherwise Stage 2 starts.
DiscoveryResolved(w) ==
    /\ w \in 1..Len(workers)
    /\ workers[w] # <<>>
    /\ workers[w][1].stage = "stage1"
    /\ \E Answering \in AnswerSets :
          IF \A i \in 1..Len(discoveryPorts) : discoveryPorts[i] \notin Answering
          THEN AfterScan(w, <<scanIpOf(workers[w][1].ip, Answering)>>)
          ELSE /\ workers' = [workers EXCEPT ![w] =
                                 <<[workers[w][1] EXCEPT !.stage = "stage2",
                                                         !.answering = Answering]>>]
               /\ UNCHANGED <<devices, previousScanDevices, isScanning, scanProgress,
                              lastScanParams, queue, foundDevicesCount, tasks, gen,
                              consoleErrors,
                              timeout, formError, scansLeft, oracle, cidrVars, scanVars>>

\* Stage 2 of the scanIp call of worker w resolves (networkService.ts:180-193).
FullScanResolved(w) ==
    /\ w \in 1..Len(workers)
    /\ workers[w] # <<>>
    /\ workers[w][1].stage = "stage2"
    /\ AfterScan(w, <<scanIpOf(workers[w][1].ip, workers[w][1].answering)>>)

\* The scanIp call of worker w rejects and processIp has no catch branch:
\* the rejection ends runWorker, nothing is counted and nothing is pulled.
ScanRejects_Uncaught(w) ==
    /\ w \in 1..Len(workers)
    /\ workers[w] # <<>>
    /\ workers[w][1].stage = "stage1"
    /\ workers' = [workers EXCEPT ![w] = <<>>]
    /\ consoleErrors' = consoleErrors \cup {workers[w][1].ip}
    /\ UNCHANGED <<devices, previousScanDevices, isScanning, scanProgress,
                   lastScanParams, queue, foundDevicesCount, tasks, gen, timeout,
                   formError, scansLeft, oracle, cidrVars, scanVars>>

\* The scanIp call of worker w rejects: `new WebSocket` threw in checkPort
\* (networkService.ts:41), and processIp takes its catch branch (line 101).
ScanRejects(w) ==
    /\ w \in 1..Len(workers)
    /\ workers[w] # <<>>
    /\ workers[w][1].stage = "stage1"
    /\ AfterScan(w, <<>>)

\* The background task t after `await analyzeDeviceByPorts(scanResult)`
\* (lines 64-98) for the reply of the service: the conflict check and the
\* update of the device, or the catch branch when the promise rejected.
AnalysisSettles(t, reply) ==
    /\ t \in tasks
    /\ reply \in oracle
    /\ tasks' = tasks \ {t}
    /\ LET a == analyzeDeviceByPorts(t.scanResult, reply)
       IN  devices' =
               IF a # <<>>
               THEN ApplyAnalysis(devices, t.ip, a[1],
                                  conflictOf(MapGet(t.currentDevicesMap, t.ip), a[1].category))
               ELSE ApplyFailure(devices, t.ip)
    /\ UNCHANGED <<previousScanDevices, isScanning, scanProgress, lastScanParams, queue,
                   workers, foundDevicesCount, gen, consoleErrors, timeout, formError,
                   scansLeft,
                   oracle, cidrVars, scanVars>>

\* Replies of the classification service.
JsonReply(c) == [kind |-> "json", category |-> c, analysis |-> "summary"]

Replies == {JsonReply("Server"), JsonReply("Workstation"), JsonReply("Printer"),
            [kind |-> "json", category |-> "", analysis |-> ""],
            [kind |-> "apiError"], [kind |-> "throws"]}

\* The replies the service gives in one behaviour.
Oracles == {{JsonReply("Server"), JsonReply("Printer")},
            {JsonReply("Server"), JsonReply("Workstation")},
            {JsonReply("Server"), [kind |-> "json", category |-> "", analysis |-> ""]},
            {JsonReply("Printer"), [kind |-> "apiError"]},
            {JsonReply("Server"), [kind |-> "throws"]}}

\* The text 10.0.0.0/30.
E2ECidr == MkCidr(NumToString(10), NumToString(0), NumToString(0), NumToString(0),
                  NumToString(30))

\* The texts the operator has typed into the CIDR and the timeout field
\* (ScanForm.tsx:123, 135): two hosts, two hosts whose sort keys are
\* negative, one host, a prefix out of range, a timeout out of range; then
\* timeouts that are no integer (250.7), off the step (250), spelled with
\* an exponent (1000e-1 for 100, 10000e-2 for 100), empty.
FormInputs ==
    {<<E2ECidr, <<"2", "5", "0", ".", "7">>>>,
     <<E2ECidr, <<"2", "5", "0">>>>,
     <<MkCidr(NumToString(10), NumToString(0), NumToString(0), NumToString(2),
              NumToString(32)), <<"1", "0", "0", "0", "e", "-", "1">>>>,
     <<E2ECidr, <<"1", "0", "0", "0", "0", "e", "-", "2">>>>,
     <<E2ECidr, <<>>>>}
    \cup
    {<<MkCidr(NumToString(10), NumToString(0), NumToString(0), NumToString(0),
              NumToString(30)), NumToString(800)>>,
     <<MkCidr(NumToString(128), NumToString(0), NumToString(0), NumToString(1),
              NumToString(30)), NumToString(800)>>,
     <<MkCidr(NumToString(10), NumToString(0), NumToString(0), NumToString(2),
              NumToString(32)), NumToString(5000)>>,
     <<MkCidr(NumToString(10), NumToString(0), NumToString(0), NumToString(0),
              NumToString(33)), NumToString(800)>>,
     <<MkCidr(NumToString(10), NumToString(0), NumToString(0), NumToString(1),
              NumToString(30)), NumToString(50)>>}

Init ==
    /\ \E f \in FormInputs : cidr = f[1] /\ timeout = f[2]
    /\ cidrResult = <<>>
    /\ ScanIdle
    /\ AppIdle
    /\ scansLeft = MaxScans
    /\ oracle \in Oracles

Next ==
    \/ HandleSubmit
    \/ HandleRefreshScan
    \/ \E w \in 1..Len(workers) : DiscoveryResolved(w)
    \/ \E w \in 1..Len(workers) : FullScanResolved(w)
    \/ \E w \in 1..Len(workers) : ScanRejects(w)
    \/ \E t \in tasks : \E reply \in oracle : AnalysisSettles(t, reply)

Spec == Init /\ [][Next]_vars

(***************************************************************************)
(* SpecPool: one run over a list longer than the pool.  It starts where a  *)
(* first run has found no host, so that Start Scan and Refresh Scan are    *)
(* both offered.  The first run was over the same six addresses or over a  *)
(* block of one address, a list shorter than the pool, which Refresh Scan  *)
(* scans again.                                                            *)
(***************************************************************************)
PoolCidr == MkCidr(NumToString(10), NumToString(0), NumToString(0), NumToString(1),
                   NumToString(29))

\* A block of one address: a list shorter than the pool of workers.
ShortCidr == MkCidr(NumToString(10), NumToString(0), NumToString(0), NumToString(1),
                    NumToString(32))

InitPool ==
    /\ cidr = PoolCidr
    /\ cidrResult = <<>>
    /\ timeout = DefaultTimeout
    /\ ScanIdle
    /\ devices = <<>>
    /\ previousScanDevices = <<>>
    /\ isScanning = FALSE
    /\ \E first \in {PoolCidr, ShortCidr} :
           /\ scanProgress = [current |-> Len(parseCidr(first).ipList),
                              total |-> Len(parseCidr(first).ipList),
                              currentIp |-> ScanCompleteLabel, found |-> 0]
           /\ lastScanParams = <<[ipList |-> parseCidr(first).ipList,
                                  timeout |-> parseInt(DefaultTimeout)[1]]>>
    /\ queue = <<>>
    /\ workers = [w \in 1..concurrencyLimit |-> <<>>]
    /\ foundDevicesCount = 0
    /\ tasks = {}
    /\ gen = 1
    /\ consoleErrors = {}
    /\ formError = ""
    /\ scansLeft = 1
    /\ oracle \in {{JsonReply("Server"), [kind |-> "throws"]}}

SpecPool == InitPool /\ [][Next]_vars

(***************************************************************************)
(* Properties of the scheduler.                                            *)
(***************************************************************************)
\* Addresses pulled from the queue and not yet finished.
InFlight == scanProgress.total - Len(queue) - scanProgress.current

C3_Counters ==
    /\ 0 <= scanProgress.found
    /\ scanProgress.found <= scanProgress.current
    /\ scanProgress.current <= scanProgress.total
    /\ (gen > 0 /\ ~isScanning) => scanProgress.current = scanProgress.total

C3_Step ==
    IF gen' # gen
    THEN scanProgress'.current = 0 /\ scanProgress'.found = 0
    ELSE /\ scanProgress'.current \in {scanProgress.current, scanProgress.current + 1}
         /\ scanProgress'.found >= scanProgress.found
         /\ scanProgress'.total = scanProgress.total

\* C3: in a run over `total` addresses `current` starts at 0, changes only
\* in steps of +1, never exceeds `total` and is `total` when the run has
\* ended; `found` never decreases and found <= current in every state.
C3_ProgressCounters == []C3_Counters /\ [][C3_Step]_vars

\* A run over six addresses has ended with some hosts found and some not.
C3_Witness ==
    /\ gen = 2
    /\ ~isScanning
    /\ scanProgress.total = 6
    /\ scanProgress.current = 6
    /\ scanProgress.found \in 1..5

\* A worker leaves its address (for the next one, or to return) only in the
\* step in which the scan of that address ends: after Stage 2, or after a
\* Stage 1 that found no open port or failed, so that there is no Stage 2.
C4_Step ==
    \A w \in 1..Len(workers) :
        (/\ workers[w] # <<>>
         /\ w \in 1..Len(workers')
         /\ \/ workers'[w] = <<>>
            \/ workers'[w][1].ip # workers[w][1].ip)
        => /\ scanProgress'.current = scanProgress.current + 1
           /\ workers[w][1].stage = "stage1" =>
                  \A i \in 1..Len(devices') : devices'[i].ip # workers[w][1].ip

\* C4: at every moment of a run at most concurrencyLimit addresses are in
\* flight, and a worker pulls its next address only after Stage 1 and
\* Stage 2 of its current address have resolved.
C4_BoundedInFlight == [](InFlight <= concurrencyLimit) /\ [][C4_Step]_vars

\* The pool is full, addresses are waiting, and a worker is already at a
\* later address than its first.
C4_Witness ==
    /\ isScanning
    /\ InFlight = concurrencyLimit
    /\ queue # <<>>
    /\ scanProgress.current >= 2
    /\ \E w \in 1..Len(workers) : workers[w] # <<>> /\ workers[w][1].stage = "stage2"

\* C5: the run is finalized (isScanning false, label 'Scan Complete') only
\* with the queue empty and every worker returned, and then completed equals
\* total.
C5_FinalizedOnlyWhenDrained ==
    /\ (gen > 0 /\ ~isScanning) =>
           /\ scanProgress.currentIp = ScanCompleteLabel
           /\ queue = <<>>
           /\ \A w \in 1..Len(workers) : workers[w] = <<>>
           /\ scanProgress.current = scanProgress.total
    /\ scanProgress.currentIp = ScanCompleteLabel => ~isScanning

\* A run over six addresses has been finalized with two devices found.
C5_Witness ==
    /\ gen = 2
    /\ ~isScanning
    /\ scanProgress.currentIp = ScanCompleteLabel
    /\ scanProgress.total = 6
    /\ Len(devices) = 2

(***************************************************************************)
(* Properties of the background classification and of the conflict check.  *)
(***************************************************************************)
\* C6: work of an earlier run never changes the devices or the progress
\* counters of a newer run: the completion of a classification task made by
\* a run before the current one leaves devices and scanProgress as they are.
C6_StaleWorkIsInert ==
    [][\A t \in tasks :
          (t.gen < gen /\ tasks' = tasks \ {t})
          => (devices' = devices /\ scanProgress' = scanProgress)]_vars

\* The category groups as the specification lists them (lowercase names).
CategoryGroups == {{"server", "workstation", "mobile device"}, {"router", "nas"},
                   {"printer"}, {"iot device"}}

\* The groups a category belongs to: one group, or none.
GroupsOf(cat) == {g \in CategoryGroups : toLowerCase(cat) \in g}

\* Conditions (a)-(d) for the previous device (<<>> when there is none) and
\* the new category.
ConflictConditions(old, cat) ==
    /\ old # <<>>
    /\ old[1].category # "" /\ cat # ""
    /\ old[1].category # cat
    /\ GroupsOf(old[1].category) # GroupsOf(cat)

\* This step is the completion of task t with a resolved classification, and
\* i is the place of the device it updates.
Classified(t, i) ==
    /\ t \in tasks
    /\ tasks' = tasks \ {t}
    /\ i \in 1..Len(devices')
    /\ devices'[i].ip = t.ip
    /\ devices'[i].analysis # "AI analysis failed."

\* C7: when a classification completes, the device carries the conflict
\* {previousCategory: the previous category} if (a) the snapshot of the
\* previous scan holds a device at that IP, (b) both categories are
\* non-empty, (c) they differ as strings and (d) their groups differ; and it
\* carries no conflict otherwise.  The snapshot is the one the run of the
\* task took, which for a task of the current run is previousScanDevices.
C7_ConflictRule ==
    [][\A t \in tasks : \A i \in 1..Len(devices') :
          Classified(t, i) =>
              /\ t.gen = gen => t.currentDevicesMap = previousScanDevices
              /\ devices'[i].conflict =
                     IF ConflictConditions(MapGet(t.currentDevicesMap, t.ip),
                                           devices'[i].category)
                     THEN <<[previousCategory |->
                                MapGet(t.currentDevicesMap, t.ip)[1].category]>>
                     ELSE <<>>]_vars

\* A Server of the previous scan is a Printer now and carries the conflict,
\* next to the states in which a Server became a Workstation without one.
C7_Witness ==
    \E i \in 1..Len(devices) :
        /\ devices[i].category = "Printer"
        /\ devices[i].conflict = <<[previousCategory |-> "Server"]>>
        /\ devices[i].ip \in DOMAIN previousScanDevices
        /\ previousScanDevices[devices[i].ip].category = "Server"

C11_ErrorXorHosts ==
    cidrResult # <<>> =>
        /\ DOMAIN cidrResult[1] = {"ipList", "error"}
        /\ (cidrResult[1].error # <<>>) <=> (cidrResult[1].ipList = <<>>)
        /\ cidrResult[1].error # <<>> =>
               cidrResult[1].error[1] \in {ErrFormat, ErrIp, ErrMask, ErrSize, ErrEmpty}

\* A /31 has been resolved to its two addresses, with no error.
C11_Witness ==
    /\ cidrResult # <<>>
    /\ CidrShape(cidr)
    /\ AllDigits(InPrefix(cidr))
    /\ parseInt(InPrefix(cidr))[1] = 31
    /\ cidrResult[1].error = <<>>
    /\ Len(cidrResult[1].ipList) = 2

\* The address of an accepted text as a 32-bit unsigned integer, kept as its
\* two 16-bit halves: the octets weighted 256^3, 256^2, 256 and 1, modulo
\* 2^32.
AddressLow(c) ==
    (parseInt(InOctet(c, 3))[1] * 256 + parseInt(InOctet(c, 4))[1]) % 65536

AddressHigh(c) ==
    (parseInt(InOctet(c, 1))[1] * 256 + parseInt(InOctet(c, 2))[1]
        + (parseInt(InOctet(c, 3))[1] * 256 + parseInt(InOctet(c, 4))[1]) \div 65536)
    % 65536

\* The dotted quad of the address with the halves high and low.
Dotted(high, low) ==
    NumToString(high \div 256) \o <<".">> \o NumToString(high % 256) \o <<".">> \o
    NumToString(low \div 256) \o <<".">> \o NumToString(low % 256)

\* The host list of A.B.C.D/N for N >= 16, where the mask keeps the high
\* half: network = ip AND mask, broadcast = network OR NOT mask; the range
\* [network + 1, broadcast - 1] for N <= 30, the two of them for N = 31, the
\* given address for N = 32.
HostRange(c) ==
    LET n         == parseInt(InPrefix(c))[1]
        size      == Pow2(32 - n)
        network   == AddressLow(c) - (AddressLow(c) % size)
        broadcast == network + size - 1
    IN  IF n = 32 THEN <<Split(c, "/")[1]>>
        ELSE IF n = 31
        THEN <<Dotted(AddressHigh(c), network), Dotted(AddressHigh(c), broadcast)>>
        ELSE [i \in 1..(size - 2) |-> Dotted(AddressHigh(c), network + i)]

\* C23: for every text parseCidr accepts, the host list is exactly the
\* range [network + 1, broadcast - 1] for N <= 30, with network = ip AND mask
\* and broadcast = network OR NOT mask, so without the network and the
\* broadcast address and whatever the host bits of the given address; the
\* pair network, broadcast for N = 31; the given address for N = 32.
C23_HostRange ==
    (cidrResult # <<>> /\ cidrResult[1].error = <<>>) =>
        Computed(cidrResult[1].ipList) = Computed(HostRange(cidr))

(***************************************************************************)
(* SpecProbe: one call of checkPort or pingPort (networkService.ts:39-69,  *)
(* 79-110) with the events of its socket and of its timer.  The probe      *)
(* record holds the closure (resolved, timer, socket), the promise, the    *)
(* time since startTime in ticks, and the history of the events delivered. *)
(* A socket event may be delivered in any state and any number of times.   *)
(***************************************************************************)
\* Socket events delivered to one probe.
MaxEvents == 3
\* The timeout of the probe, in ticks.
TimeoutTicks == 2

\* The state when `new Promise(executor)` returns: the socket is connecting
\* and the timer is set; or `new WebSocket` threw, the promise is rejected
\* and no timer was set.
NewProbe(kind, threw) ==
    [kind |-> kind, port |-> 80,
     socket |-> IF threw THEN "threw" ELSE "connecting",
     timer |-> IF threw THEN "none" ELSE "armed",
     resolved |-> FALSE, resolveCalls |-> 0, promise |-> <<>>, rejected |-> threw,
     elapsed |-> 0, events |-> <<>>]

\* The value passed to resolve: { port, status } in checkPort,
\* { status, duration: performance.now() - startTime } in pingPort.
ProbeValue(p, status) ==
    IF p.kind = "checkPort" THEN [port |-> p.port, status |-> status]
    ELSE [status |-> status, duration |-> p.elapsed]

\* resolve(value): the first call fulfils the promise, a later call has no
\* effect on it.
Resolve_(p, status) ==
    [p EXCEPT !.resolveCalls = @ + 1,
              !.promise = IF @ = <<>> /\ ~p.rejected THEN <<ProbeValue(p, status)>> ELSE @]

\* clearTimeout without effect: the timer stays set.
clearTimeout_NoEffect(t) == t

\* clearTimeout(timer)
clearTimeout(t) == IF t = "armed" THEN "cleared" ELSE t

\* socket.onopen without the test of `resolved`.
onopen_Unguarded(p) ==
    Resolve_([p EXCEPT !.resolved = TRUE, !.timer = clearTimeout(@), !.socket = "closed"],
             "open")

\* socket.onopen (lines 52-59, 93-100)
onopen(p) ==
    IF ~p.resolved
    THEN Resolve_([p EXCEPT !.resolved = TRUE, !.timer = clearTimeout(@),
                            !.socket = "closed"], "open")
    ELSE p

\* socket.onerror (lines 61-67, 102-108)
onerror(p) ==
    IF ~p.resolved
    THEN Resolve_([p EXCEPT !.resolved = TRUE, !.timer = clearTimeout(@)], "closed")
    ELSE p

\* The setTimeout callback without resolve(...) (lines 48, 89): the socket
\* is closed and the promise is left pending.
ontimeout_NoResolve(p) ==
    IF ~p.resolved
    THEN [p EXCEPT !.resolved = TRUE, !.socket = "closed"]
    ELSE p

\* The setTimeout callback without socket.close() (lines 47, 88).
ontimeout_SocketLeftOpen(p) ==
    IF ~p.resolved
    THEN Resolve_([p EXCEPT !.resolved = TRUE], "closed")
    ELSE p

\* the setTimeout callback (lines 44-50, 85-91)
ontimeout(p) ==
    IF ~p.resolved
    THEN Resolve_([p EXCEPT !.resolved = TRUE, !.socket = "closed"], "closed")
    ELSE p

InitProbe ==
    /\ probe \in {NewProbe(k, t) : k \in {"checkPort", "pingPort"}, t \in BOOLEAN}
    /\ stability = <<>>
    /\ modal = <<>>
    /\ scanHost = <<>>
    /\ scanPorts = <<>>
    /\ scanStage = "idle"
    /\ discoveryResults = <<>>
    /\ fullScanResults = <<>>
    /\ probeCount = 0
    /\ scanResult = <<>>
    /\ CidrIdle
    /\ AppIdle
    /\ timeout = DefaultTimeout
    /\ scansLeft = 0
    /\ oracle = {}

ProbeRest == <<stability, modal, scanHost, scanPorts, scanStage, discoveryResults,
               fullScanResults, probeCount, scanResult, cidrVars, appVars>>

\* The open event of the socket: readyState becomes OPEN, then onopen runs.
ProbeOnOpen ==
    /\ probe # <<>>
    /\ probe.socket # "threw"
    /\ Len(SelectSeq(probe.events, LAMBDA e : e # "timer")) < MaxEvents
    /\ probe' = onopen([probe EXCEPT
                           !.socket = IF @ = "connecting" THEN "open" ELSE @,
                           !.events = Append(@, "open")])
    /\ UNCHANGED ProbeRest

\* The error event of the socket: the connection has failed, readyState is
\* CLOSED, then onerror runs.
ProbeOnError ==
    /\ probe # <<>>
    /\ probe.socket # "threw"
    /\ Len(SelectSeq(probe.events, LAMBDA e : e # "timer")) < MaxEvents
    /\ probe' = onerror([probe EXCEPT !.socket = "closed",
                                      !.events = Append(@, "error")])
    /\ UNCHANGED ProbeRest

\* The timer set by setTimeout expires: its callback runs, once, unless the
\* timer was cleared.
ProbeOnTimeout ==
    /\ probe # <<>>
    /\ probe.timer = "armed"
    /\ probe.elapsed = TimeoutTicks
    /\ probe' = ontimeout([probe EXCEPT !.timer = "fired",
                                        !.events = Append(@, "timer")])
    /\ UNCHANGED ProbeRest

\* Time passes.
ProbeTick ==
    /\ probe # <<>>
    /\ probe.elapsed < TimeoutTicks
    /\ probe' = [probe EXCEPT !.elapsed = @ + 1]
    /\ UNCHANGED ProbeRest

NextProbe ==
    \/ ProbeOnOpen
    \/ ProbeOnError
    \/ ProbeOnTimeout
    \/ ProbeTick

SpecProbe == InitProbe /\ [][NextProbe]_vars

C12_Resolved ==
    (probe # <<>> /\ probe.socket # "threw") =>
        /\ probe.resolveCalls <= 1
        /\ probe.events = <<>> => (probe.resolveCalls = 0 /\ probe.promise = <<>>)
        /\ probe.events # <<>> =>
               /\ probe.resolveCalls = 1
               /\ probe.promise # <<>>
               /\ probe.promise[1].status =
                      IF probe.events[1] = "open" THEN "open" ELSE "closed"

\* C12: a probe whose socket was created resolves exactly once, whatever
\* the order and the number of the open, error and timer events: with
\* 'open' when the open event came first and with 'closed' when the error
\* event or the timer came first; a later event neither resolves again nor
\* changes the result.
C12_ResolvesOnce ==
    []C12_Resolved
    /\ [][(probe # <<>> /\ probe.promise # <<>>) => probe'.promise = probe.promise]_vars

\* The timer came first and the open and error events followed it.
C12_Witness ==
    /\ probe # <<>>
    /\ Len(probe.events) = 3
    /\ probe.events[1] = "timer"
    /\ probe.events[2] = "open"
    /\ probe.events[3] = "error"
    /\ probe.promise # <<>>
    /\ probe.promise[1].status = "closed"

\* The probe has resolved: `resolved` is set and the promise is fulfilled.
ProbeResolved == probe # <<>> /\ probe.resolved /\ probe.promise # <<>>

C26_Step ==
    /\ (probe # <<>> /\ ~probe.resolved /\ probe'.resolved
           /\ probe'.events[Len(probe'.events)] \in {"open", "error"})
          => (probe.timer = "armed" /\ probe'.timer = "cleared")
    /\ (probe # <<>> /\ probe'.timer = "fired" /\ probe.timer # "fired")
          => /\ ~probe.resolved
             /\ probe.promise = <<>>
             /\ probe'.events = Append(probe.events, "timer")
    /\ (probe # <<>> /\ Len(probe'.events) > Len(probe.events)
           /\ probe'.events[Len(probe'.events)] = "timer")
          => ~probe.resolved

\* C26: the step in which a probe resolves by its open or error event
\* clears its timer; a resolved probe never has its timer still set; and
\* the timer callback runs only for a probe that has not resolved, so it
\* never closes the socket of, or resolves, a probe that already resolved.
C26_TimerClearedOnResolution ==
    /\ [](ProbeResolved => probe.timer # "armed")
    /\ [][C26_Step]_vars

\* The probe resolved open before its timeout, the timer was cleared, and
\* the time of the timeout has come without the callback running.
C26_Witness ==
    /\ ProbeResolved
    /\ probe.events = <<"open">>
    /\ probe.promise[1].status = "open"
    /\ probe.timer = "cleared"
    /\ probe.elapsed = TimeoutTicks

\* C27: a probe that has resolved, by its open event, its error event or its
\* timeout, no longer has a socket that is connecting or open; in the step
\* in which it resolves by timeout the socket is closed.
C27_ResolvedProbeReleasedSocket ==
    /\ [](ProbeResolved => probe.socket \notin {"connecting", "open"})
    /\ [][(probe # <<>> /\ ~probe.resolved /\ probe'.resolved
             /\ probe'.events[Len(probe'.events)] = "timer")
            => (probe.socket \in {"connecting", "open"} => probe'.socket = "closed")]_vars

\* The probe resolved by timeout while its socket was still connecting: the
\* socket is closed and the result is closed.
C27_Witness ==
    /\ ProbeResolved
    /\ probe.events = <<"timer">>
    /\ probe.timer = "fired"
    /\ probe.socket = "closed"
    /\ probe.promise[1].status = "closed"

(***************************************************************************)
(* Properties of the device collection.                                    *)
(***************************************************************************)

\* The addresses the form's CIDR texts expand to, and the pairs of them in
\* ascending numeric order.
FormHosts ==
    UNION {{parseCidr(f[1]).ipList[n] : n \in 1..Len(parseCidr(f[1]).ipList)} :
               f \in FormInputs}

HostOrder == {p \in FormHosts \X FormHosts : IpLess(p[1], p[2])}

\* C13: in every state the device collection is in ascending numeric IP
\* order (the dotted quad read most significant octet first, unsigned),
\* whatever the order in which scans and classifications complete.
C13_DevicesSorted ==
    \A i \in 1..Len(devices) : \A j \in (i + 1)..Len(devices) :
        /\ devices[i].ip \in FormHosts
        /\ devices[j].ip \in FormHosts
        /\ <<devices[j].ip, devices[i].ip>> \notin HostOrder

\* Two hosts with negative sort keys are in the collection, the second one
\* classified before the first.
C13_Witness ==
    /\ Len(devices) = 2
    /\ ipToSortable(devices[1].ip) < 0
    /\ IpLess(devices[1].ip, devices[2].ip)
    /\ devices[1].isAnalyzing
    /\ ~devices[2].isAnalyzing

(***************************************************************************)
(* Failures of a host scan and of a classification.                        *)
(***************************************************************************)
\* While a scanIp call is awaited, some awaited call settles a stage: each
\* checkPort promise of a scanIp call settles by its timer at the latest
\* (networkService.ts:44-50).  Nothing is assumed about the classification
\* service.
ScansSettle ==
    WF_vars(\E w \in 1..concurrencyLimit :
                DiscoveryResolved(w) \/ FullScanResolved(w) \/ ScanRejects(w))

\* The device at ip in a collection: <<>> when there is none.
DeviceAt(devs, ip) ==
    IF \E i \in 1..Len(devs) : devs[i].ip = ip
    THEN <<devs[CHOOSE i \in 1..Len(devs) : devs[i].ip = ip]>>
    ELSE <<>>

(***************************************************************************)
(* SpecRun: the end of one run of handleStartScan over the six addresses   *)
(* of PoolCidr, from the state in which all addresses but the last         *)
(* concurrencyLimit + 1 have been counted as Offline: every worker awaits  *)
(* a scan and one address is queued.  The operator does nothing.           *)
(***************************************************************************)
PoolList == parseCidr(PoolCidr).ipList

InitRun ==
    LET n == Len(PoolList)
        counted == n - concurrencyLimit - 1
    IN  /\ cidr = PoolCidr
        /\ cidrResult = <<>>
        /\ timeout = DefaultTimeout
        /\ ScanIdle
        /\ devices = <<>>
        /\ previousScanDevices = DevicesMap(<<>>)
        /\ isScanning = TRUE
        /\ scanProgress = [current |-> counted, total |-> n,
                           currentIp |-> PoolList[n - 1], found |-> 0]
        /\ lastScanParams = <<[ipList |-> PoolList, timeout |-> parseInt(DefaultTimeout)[1]]>>
        /\ queue = <<PoolList[n]>>
        /\ workers = [w \in 1..concurrencyLimit |-> AwaitingStage1(PoolList[counted + w])]
        /\ foundDevicesCount = 0
        /\ tasks = {}
        /\ gen = 1
        /\ consoleErrors = {}
        /\ formError = ""
        /\ scansLeft = 0
        /\ oracle \in Oracles

NextRun ==
    \/ \E w \in 1..Len(workers) : DiscoveryResolved(w)
    \/ \E w \in 1..Len(workers) : FullScanResolved(w)
    \/ \E w \in 1..Len(workers) : ScanRejects(w)
    \/ \E t \in tasks : \E reply \in oracle : AnalysisSettles(t, reply)

SpecRun == InitRun /\ [][NextRun]_vars /\ ScansSettle

\* A classification has been started in this step: the worker that found
\* the host has counted the address and has gone on, the call of
\* analyzeDeviceByPorts being pending.
C15_Step ==
    \A t \in tasks' \ tasks :
        /\ scanProgress'.current = scanProgress.current + 1
        /\ scanProgress'.found = scanProgress.found + 1
        /\ DeviceAt(devices', t.ip) # <<>>
        /\ DeviceAt(devices', t.ip)[1].isAnalyzing
        /\ \E w \in 1..Len(workers) :
              /\ workers[w] # <<>>
              /\ workers[w][1].ip = t.ip
              /\ IF queue # <<>>
                 THEN workers'[w] = AwaitingStage1(Head(queue)) /\ queue' = Tail(queue)
                 ELSE workers'[w] = <<>>

\* C15: the step that finds a host online counts the address and lets the
\* worker pull the next one while the classification of the host is
\* pending, and no step of the scan waits for a classification; so, every
\* scan settling and nothing being assumed about the classifier, a running
\* scan reaches the complete state with completed = total, also when no
\* classification ever returns.
C15_ClassifierNeverDelays ==
    /\ [][C15_Step]_vars
    /\ [][\A w \in 1..Len(workers) :
             workers'[w] # workers[w] => ~\E t \in tasks : tasks' = tasks \ {t}]_vars
    /\ (isScanning ~> (~isScanning /\ scanProgress.current = scanProgress.total))

\* The run has ended with two hosts found, neither classification having
\* returned.
C15_Witness ==
    /\ ~isScanning
    /\ scanProgress.current = scanProgress.total
    /\ Len(devices) = 2
    /\ Cardinality(tasks) = 2
    /\ \A i \in 1..Len(devices) : devices[i].isAnalyzing


C14_Step ==
    \A w \in 1..Len(workers) :
        ScanRejects(w) =>
            /\ scanProgress'.current = scanProgress.current + 1
            /\ scanProgress'.found = scanProgress.found
            /\ scanProgress'.total = scanProgress.total
            /\ foundDevicesCount' = foundDevicesCount
            /\ devices' = devices
            /\ tasks' = tasks
            /\ \A v \in 1..Len(workers) : v # w => workers'[v] = workers[v]
            /\ IF queue # <<>>
               THEN workers'[w] = AwaitingStage1(Head(queue)) /\ queue' = Tail(queue)
               ELSE workers'[w] = <<>> /\ queue' = queue
            /\ isScanning' = (isScanning /\ \E v \in 1..Len(workers) : workers'[v] # <<>>)

\* C14: when scanIp rejects for an address, that address is counted like an
\* Offline one: completed grows by one, found and the device collection
\* stay, the other workers are untouched and the worker pulls the next
\* queued address; the run ends when the last worker has returned, and
\* then completed = total.
C14_ScanFailureIsOffline ==
    /\ [][C14_Step]_vars
    /\ [](~isScanning => scanProgress.current = scanProgress.total)
    /\ [](\A i \in 1..Len(devices) : devices[i].ip \notin consoleErrors)

\* A run in which the scan of one address failed and another host was found
\* has ended with every address counted.
C14_Witness ==
    /\ ~isScanning
    /\ Cardinality(consoleErrors) = 1
    /\ scanProgress.total = 6
    /\ scanProgress.current = scanProgress.total
    /\ scanProgress.found = 1
    /\ Len(devices) = 1

\* The classification of task t has failed with `reply` in this step.
ClassifierFails(t, reply) == reply.kind # "json" /\ AnalysisSettles(t, reply)

\* What a failed classification leaves alone: the devices of the other
\* hosts, their places, and the scan.
C16_OthersUntouched(t) ==
    /\ Len(devices') = Len(devices)
    /\ \A i \in 1..Len(devices) : devices[i].ip # t.ip => devices'[i] = devices[i]
    /\ \A i \in 1..Len(devices) : devices'[i].ip = devices[i].ip
    /\ UNCHANGED <<isScanning, scanProgress, queue, workers, foundDevicesCount>>

\* C16 as stated: whenever the classification of a host in the collection
\* fails, the device of that host then has category 'Error', analysis
\* 'AI analysis failed.', no services and isAnalyzing = false, and nothing
\* else changes.
C16_FailureShowsAnalysisFailed ==
    [][\A t \in tasks : \A reply \in oracle :
          (ClassifierFails(t, reply) /\ DeviceAt(devices, t.ip) # <<>>) =>
              /\ DeviceAt(devices', t.ip) # <<>>
              /\ DeviceAt(devices', t.ip)[1].category = "Error"
              /\ DeviceAt(devices', t.ip)[1].analysis = "AI analysis failed."
              /\ DeviceAt(devices', t.ip)[1].services = <<>>
              /\ ~DeviceAt(devices', t.ip)[1].isAnalyzing
              /\ C16_OthersUntouched(t)]_vars

\* C16 amended: the analysis text is 'AI analysis failed.' only when the
\* call of analyzeDeviceByPorts rejects; when the service call or the
\* parsing of its answer throws, analyzeDeviceByPorts resolves with its own
\* error response, whose text is shown, and the conflict check runs on the
\* category 'Error'.
C16_FailureShowsError ==
    [][\A t \in tasks : \A reply \in oracle :
          (ClassifierFails(t, reply) /\ DeviceAt(devices, t.ip) # <<>>) =>
              /\ DeviceAt(devices', t.ip) # <<>>
              /\ DeviceAt(devices', t.ip)[1].category = "Error"
              /\ DeviceAt(devices', t.ip)[1].analysis =
                     IF reply.kind = "throws" THEN "AI analysis failed." ELSE AnalysisError
              /\ DeviceAt(devices', t.ip)[1].conflict =
                     IF reply.kind = "throws" THEN DeviceAt(devices, t.ip)[1].conflict
                     ELSE conflictOf(MapGet(t.currentDevicesMap, t.ip), "Error")
              /\ DeviceAt(devices', t.ip)[1].services = <<>>
              /\ ~DeviceAt(devices', t.ip)[1].isAnalyzing
              /\ DeviceAt(devices', t.ip)[1].openPorts = DeviceAt(devices, t.ip)[1].openPorts
              /\ C16_OthersUntouched(t)]_vars

\* While a scan is running, the device found so far shows the error
\* response of analyzeDeviceByPorts.
C16_Witness ==
    /\ isScanning
    /\ Len(devices) = 1
    /\ devices[1].category = "Error"
    /\ devices[1].analysis = AnalysisError
    /\ devices[1].services = <<>>
    /\ ~devices[1].isAnalyzing

(***************************************************************************)
(* Re-run and the form.                                                    *)
(***************************************************************************)
\* The addresses a run has pulled or still holds in its queue, in order.
RunAddresses(ws, q) ==
    [k \in 1..Cardinality({w \in 1..Len(ws) : ws[w] # <<>>}) |->
        ws[CHOOSE w \in 1..Len(ws) :
               ws[w] # <<>> /\ Cardinality({v \in 1..w : ws[v] # <<>>}) = k][1].ip] \o q

\* C17: Refresh Scan starts a run over the address list and with the
\* timeout of the last run, and the previous-scan snapshot it leaves holds,
\* keyed by ip, exactly the devices that were in the collection when it was
\* invoked; the collection is then empty.
C17_RefreshRerunsWithSnapshot ==
    [][HandleRefreshScan =>
          /\ lastScanParams' = lastScanParams
          /\ isScanning'
          /\ RunAddresses(workers', queue') = lastScanParams[1].ipList
          /\ scanProgress'.total = Len(lastScanParams[1].ipList)
          /\ scanProgress'.current = 0
          /\ scanProgress'.found = 0
          /\ DOMAIN previousScanDevices' = {devices[i].ip : i \in 1..Len(devices)}
          /\ \A i \in 1..Len(devices) : previousScanDevices'[devices[i].ip] = devices[i]
          /\ devices' = <<>>]_vars

\* A second run is under way over the two addresses of the first one; the
\* snapshot holds the two classified devices of the first run.
C17_Witness ==
    /\ gen = 2
    /\ isScanning
    /\ lastScanParams # <<>>
    /\ Len(lastScanParams[1].ipList) = 2
    /\ Cardinality(DOMAIN previousScanDevices) = 2
    /\ \A ip \in DOMAIN previousScanDevices :
          /\ previousScanDevices[ip].ip = ip
          /\ ~previousScanDevices[ip].isAnalyzing

\* The two addresses between the network and the broadcast address of
\* 10.0.0.0/30.
E2EHosts == <<<<"1", "0", ".", "0", ".", "0", ".", "1">>,
              <<"1", "0", ".", "0", ".", "0", ".", "2">>>>

\* The scan of the address of worker w resolves in this step, every probe
\* having resolved closed.
AllProbesClosed(w) ==
    /\ cidr = E2ECidr
    /\ workers[w] # <<>>
    /\ workers[w][1].stage = "stage1"
    /\ AfterScan(w, <<scanIpOf(workers[w][1].ip, {})>>)

\* The first run over 10.0.0.0/30 has ended, no scan having failed and no
\* host having been found online.
E2ECompleted ==
    /\ cidr = E2ECidr
    /\ gen = 1
    /\ ~isScanning
    /\ consoleErrors = {}
    /\ foundDevicesCount = 0

\* C18 as stated: 10.0.0.0/30 resolves to 10.0.0.1 and 10.0.0.2, and a
\* scan in which every probe resolves closed puts an Offline device with an
\* empty port list into the collection for each of them, found staying 0.
C18_TwoOfflineDevices ==
    /\ [](cidr = E2ECidr => parseCidr(cidr) = [ipList |-> E2EHosts, error |-> <<>>])
    /\ [][\A w \in 1..Len(workers) :
             AllProbesClosed(w) =>
                 /\ DeviceAt(devices', workers[w][1].ip) # <<>>
                 /\ DeviceAt(devices', workers[w][1].ip)[1].status = "Offline"
                 /\ DeviceAt(devices', workers[w][1].ip)[1].openPorts = <<>>
                 /\ scanProgress'.found = scanProgress.found]_vars
    /\ [](E2ECompleted => (Len(devices) = 2 /\ scanProgress.found = 0))

\* C18 amended: scanIp returns an Offline result with an empty port list
\* for each of the two addresses, and neither result enters the device
\* collection: the run ends with the collection empty, completed = total
\* = 2 and found = 0.
C18_OfflineResultsNoDevices ==
    /\ [](cidr = E2ECidr => parseCidr(cidr) = [ipList |-> E2EHosts, error |-> <<>>])
    /\ [][\A w \in 1..Len(workers) :
             AllProbesClosed(w) =>
                 /\ scanIpOf(workers[w][1].ip, {}) =
                        [ip |-> workers[w][1].ip, status |-> "Offline", openPorts |-> <<>>]
                 /\ devices' = devices
                 /\ tasks' = tasks
                 /\ scanProgress'.found = scanProgress.found
                 /\ scanProgress'.current = scanProgress.current + 1]_vars
    /\ [](E2ECompleted =>
             /\ lastScanParams[1].ipList = E2EHosts
             /\ devices = <<>>
             /\ tasks = {}
             /\ scanProgress.total = 2
             /\ scanProgress.current = 2
             /\ scanProgress.found = 0
             /\ scanProgress.currentIp = ScanCompleteLabel)

\* The run over 10.0.0.0/30 has ended with both addresses counted and
\* nothing found.
C18_Witness ==
    /\ E2ECompleted
    /\ scanProgress.current = 2
    /\ scanProgress.found = 0
    /\ devices = <<>>

\* The timeout text denotes an integer between 100 and 5000.
IntegerInRange(t) ==
    /\ IsFloat(t)
    /\ FloatValue(t).num % FloatValue(t).den = 0
    /\ FloatValue(t).num \div FloatValue(t).den >= 100
    /\ FloatValue(t).num \div FloatValue(t).den <= 5000

\* The form's CIDR texts that parseCidr rejects, and its timeout texts that do
\* not denote an integer in [100, 5000].
RejectedCidrs == {f[1] : f \in {g \in FormInputs : parseCidr(g[1]).error # <<>>}}

RejectedTimeouts == {f[2] : f \in {g \in FormInputs : ~IntegerInRange(g[2])}}

\* No scan has been started since the App was rendered.
NeverStarted ==
    /\ devices = <<>>
    /\ previousScanDevices = <<>>
    /\ scanProgress = [current |-> 0, total |-> 0, currentIp |-> <<>>, found |-> 0]
    /\ lastScanParams = <<>>
    /\ ~isScanning
    /\ workers = <<>>
    /\ queue = <<>>
    /\ tasks = {}

\* C19: with a CIDR text that parseCidr rejects, or a timeout text that does
\* not denote an integer in [100, 5000], pressing Start Scan starts nothing:
\* no worker, no probe, and devices, snapshot and progress as before; and
\* the timeout of every started scan lies in [100, 5000].
C19_InvalidInputStartsNothing ==
    /\ <<cidr, timeout>> \in FormInputs
    /\ (cidr \in RejectedCidrs \/ timeout \in RejectedTimeouts) => NeverStarted
    /\ lastScanParams # <<>> =>
           (lastScanParams[1].timeout >= 100 /\ lastScanParams[1].timeout <= 5000)

\* Start Scan has been pressed twice with the timeout 250.7 and has started
\* nothing.
C19_Witness ==
    /\ timeout = <<"2", "5", "0", ".", "7">>
    /\ parseCidr(cidr).error = <<>>
    /\ scansLeft = 0
    /\ NeverStarted

(***************************************************************************)
(* SpecStability: one call of checkStability (networkService.ts:120-146).  *)
(* A number is kept exactly, as a fraction [num, den] in lowest terms;     *)
(* den = 0 is NaN, the value of 0 / 0.  The square root of a fraction r is *)
(* kept as [root |-> r].                                                   *)
(***************************************************************************)
\* The ping count of one call.
MaxPings == 3

\* What a pingPort call can resolve to; durations in ms.
PingOutcomes ==
    {[status |-> "open", duration |-> 1], [status |-> "open", duration |-> 3],
     [status |-> "open", duration |-> 30],
     [status |-> "closed", duration |-> 2], [status |-> "closed", duration |-> 4]}

\* A pingPort promise that is pending.
PingPending == [status |-> "pending", duration |-> 0]

RECURSIVE Gcd(_, _)
Gcd(a, b) == IF b = 0 THEN a ELSE Gcd(b, a % b)

\* a / b
Divide(a, b) ==
    IF b = 0 THEN [num |-> 0, den |-> 0]
    ELSE IF a = 0 THEN [num |-> 0, den |-> 1]
    ELSE [num |-> a \div Gcd(a, b), den |-> b \div Gcd(a, b)]

\* The number 0, and 0 as a root.
Zero == Divide(0, 1)
RootZero == [root |-> Zero]

\* Math.sqrt(r)
Sqrt(r) == [root |-> r]

\* array.reduce((a, b) => a + b, 0)
RECURSIVE Sum(_, _)
Sum(a, i) == IF i > Len(a) THEN 0 ELSE a[i] + Sum(a, i + 1)

\* The filter of line 127 dropped: the closed pings are part of the sample.
Latencies_AllPings(results) == [k \in 1..Len(results) |-> results[k].duration]

\* results.filter(r => r.status === 'open').map(p => p.duration)
Latencies(results) ==
    LET open == FilterIdx(results, {i \in 1..Len(results) : results[i].status = "open"})
    IN  [k \in 1..Len(open) |-> open[k].duration]

\* The test of line 130 dropped: the statistics are computed for an empty
\* sample too.
NoOpenPing_Never(latencies) == FALSE

\* if (latencies.length === 0) (line 130)
NoOpenPing(latencies) == Len(latencies) = 0

\* The value checkStability returns for the resolved pings (lines 127-145).
\* With n latencies of sum s and sum of squares q the average is s / n and
\* the variance, the mean of (l - s/n)^2, is (n q - s^2) / n^2.
StabilityResult(pings, results) ==
    LET latencies == Computed(Latencies(results))
        n == Len(latencies)
        s == Sum(latencies, 1)
        q == Sum([k \in 1..n |-> latencies[k] * latencies[k]], 1)
    IN  IF NoOpenPing(latencies)
        THEN [successRate |-> 0, totalPings |-> pings, avgLatency |-> Zero,
              jitter |-> RootZero]
        ELSE [successRate |-> n, totalPings |-> pings, avgLatency |-> Divide(s, n),
              jitter |-> Sqrt(Divide(n * q - s * s, n * n))]

StabilityRest == <<probe, modal, scanHost, scanPorts, scanStage, discoveryResults,
                   fullScanResults, probeCount, scanResult, cidrVars, appVars>>

\* The default ping count of checkStability (line 120).
DefaultPings == 20

\* A call with the default ping count at its await, 17 of its pings resolved:
\* 14 open after 10 ms and 3 closed after 500 ms, the default timeout.
StabilityUnderWay ==
    [stage |-> "awaiting", pings |-> DefaultPings, throws |-> FALSE,
     results |-> [i \in 1..DefaultPings |->
                     IF i <= 14 THEN [status |-> "open", duration |-> 10]
                     ELSE IF i <= 17 THEN [status |-> "closed", duration |-> 500]
                     ELSE PingPending],
     returned |-> <<>>]

\* Before the call: the ping count, and whether `new WebSocket` throws for
\* the URL of the pings; or a call with the default count under way.
InitStability ==
    /\ stability \in {[stage |-> "idle", pings |-> n, throws |-> t, results |-> <<>>,
                       returned |-> <<>>] : n \in 0..MaxPings, t \in BOOLEAN}
                         \cup {StabilityUnderWay}
    /\ probe = <<>>
    /\ modal = <<>>
    /\ scanHost = <<>>
    /\ scanPorts = <<>>
    /\ scanStage = "idle"
    /\ discoveryResults = <<>>
    /\ fullScanResults = <<>>
    /\ probeCount = 0
    /\ scanResult = <<>>
    /\ CidrIdle
    /\ AppIdle
    /\ timeout = DefaultTimeout
    /\ scansLeft = 0
    /\ oracle = {}

\* checkStability(ip, port, pings, timeout) up to its await (lines 120-126):
\* the pings are started; Promise.all of no promise is resolved at once, and
\* it is rejected at once when a pingPort promise is (the executor threw).
checkStability(pings, throws) ==
    LET call == [stage |-> "idle", pings |-> pings, throws |-> throws,
                 results |-> <<>>, returned |-> <<>>]
    IN  IF pings = 0
        THEN [call EXCEPT !.stage = "returned",
                          !.returned = <<StabilityResult(0, <<>>)>>]
        ELSE IF throws
        THEN [call EXCEPT !.stage = "rejected"]
        ELSE [call EXCEPT !.stage = "awaiting",
                          !.results = [i \in 1..pings |-> PingPending]]

CheckStability ==
    /\ stability # <<>>
    /\ stability.stage = "idle"
    /\ stability' = checkStability(stability.pings, stability.throws)
    /\ UNCHANGED StabilityRest

\* The pingPort promise of ping i resolves; when it is the last one,
\* Promise.all resolves and checkStability returns (lines 126-145).
PingResolves(i, outcome) ==
    /\ stability # <<>>
    /\ stability.stage = "awaiting"
    /\ i \in 1..Len(stability.results)
    /\ stability.results[i] = PingPending
    /\ LET results == [stability.results EXCEPT ![i] = outcome]
       IN  stability' =
               IF \A k \in 1..Len(results) : results[k] # PingPending
               THEN [stability EXCEPT !.results = results, !.stage = "returned",
                                      !.returned = <<StabilityResult(stability.pings, results)>>]
               ELSE [stability EXCEPT !.results = results]
    /\ UNCHANGED StabilityRest

NextStability ==
    \/ CheckStability
    \/ \E i \in 1..DefaultPings : \E outcome \in PingOutcomes : PingResolves(i, outcome)

SpecStability == InitStability /\ [][NextStability]_vars

\* C20: when every ping of a checkStability call has resolved and none of
\* them open, for every ping count from 0 on, the call returns successRate
\* 0, avgLatency 0 and jitter 0 with totalPings the ping count: a result,
\* not a rejection, and no NaN from a division by zero.
C20_ZeroOpensZeroStatistics ==
    (/\ stability # <<>>
     /\ stability.stage \in {"returned", "awaiting"}
     /\ \A i \in 1..Len(stability.results) :
           stability.results[i].status = "closed") =>
        /\ stability.stage = "returned"
        /\ stability.returned =
               <<[successRate |-> 0, totalPings |-> stability.pings,
                  avgLatency |-> [num |-> 0, den |-> 1],
                  jitter |-> [root |-> [num |-> 0, den |-> 1]]]>>

\* Three pings have resolved closed and the call has returned.
C20_Witness ==
    /\ stability # <<>>
    /\ stability.pings = 3
    /\ stability.stage = "returned"
    /\ \A i \in 1..3 : stability.results[i].status = "closed"
    /\ stability.returned[1].successRate = 0

\* The sum of the durations of the pings that resolved open, and their number.
RECURSIVE OpenDurations(_, _)
OpenDurations(results, i) ==
    IF i > Len(results) THEN 0
    ELSE (IF results[i].status = "open" THEN results[i].duration ELSE 0)
             + OpenDurations(results, i + 1)

OpenPings(results) == {i \in 1..Len(results) : results[i].status = "open"}

\* The pings of the call are 20, of which 15 open: 14 after 10 ms, 1 after 30.
FifteenOfTwentyOpen ==
    /\ Len(stability.results) = 20
    /\ Cardinality(OpenPings(stability.results)) = 15
    /\ Cardinality({i \in OpenPings(stability.results) :
                        stability.results[i].duration = 10}) = 14
    /\ Cardinality({i \in OpenPings(stability.results) :
                        stability.results[i].duration = 30}) = 1

\* C21: a returned checkStability call has totalPings equal to the requested
\* ping count, successRate equal to the number of pings that resolved open
\* (so at most totalPings), and avgLatency times successRate equal to the sum
\* of the open pings' durations alone; with 20 pings of which 15 open, 14
\* after 10 ms and 1 after 30 ms, successRate is 15, avgLatency is 170 / 15
\* (34/3, about 11.33) and the jitter is the root of a positive number.
C21_StatisticsFromOpenPings ==
    (stability # <<>> /\ stability.stage = "returned") =>
        LET r == stability.returned[1]
            results == stability.results
        IN  /\ r.totalPings = stability.pings
            /\ Len(results) = stability.pings
            /\ r.successRate = Cardinality(OpenPings(results))
            /\ r.successRate <= r.totalPings
            /\ r.avgLatency.den > 0
            /\ r.avgLatency.num * r.successRate =
                   OpenDurations(results, 1) * r.avgLatency.den
            /\ FifteenOfTwentyOpen =>
                   /\ r.successRate = 15
                   /\ OpenDurations(results, 1) = 170
                   /\ r.avgLatency = [num |-> 34, den |-> 3]
                   /\ r.jitter.root.den > 0
                   /\ r.jitter.root.num > 0

\* The call with 20 pings has returned with 15 of them open, 14 after 10 ms
\* and 1 after 30 ms, and 5 closed.
C21_Witness ==
    /\ stability # <<>>
    /\ stability.stage = "returned"
    /\ FifteenOfTwentyOpen
    /\ stability.returned[1].successRate = 15

(***************************************************************************)
(* SpecModal: DeviceDetailModal (part_004) rendered for one device, and    *)
(* the checkStability call its Run Test handler makes.  The handler is     *)
(* followed for every Device of the prop's type, with and without open     *)
(* ports; the Run Test button that calls it is disabled while a check runs *)
(* (line 155).                                                             *)
(***************************************************************************)
\* The `device` prop: its ip and openPorts.
ModalDevices ==
    {[ip |-> ip, openPorts |-> ports] :
        ip \in ScanHosts, ports \in {<<>>, <<80>>, <<22, 80>>, <<443, 8080>>}}

\* What the pings of a modal's check resolve to: the port answers after
\* 10 ms, or the ping times out after the default 500 ms.
ModalPingOutcomes ==
    {[status |-> "open", duration |-> 10], [status |-> "closed", duration |-> 500]}

\* device.openPorts.length > 0 ? device.openPorts[0] : undefined (line 20);
\* undefined is <<>>.
portToTest(device) ==
    IF Len(device.openPorts) > 0 THEN <<device.openPorts[1]>> ELSE <<>>

\* The test of line 22 dropped: checkStability is called with any port.
NoPortToTest_Never(p) == FALSE

\* !portToTest (line 22): undefined and 0 are falsy.
NoPortToTest(p) == p = <<>> \/ p[1] = 0

\* The result set when there is no port to test (lines 23-29); the number 0
\* of the jitter field is written as its root.
NoPortsResult ==
    [successRate |-> 0, totalPings |-> 0, avgLatency |-> Zero, jitter |-> RootZero,
     error |-> <<"No open ports available to run a stability test.">>]

\* A result of checkStability as a StabilityResult of types.ts: it has no
\* error field.
WithoutError(r) ==
    [successRate |-> r.successRate, totalPings |-> r.totalPings,
     avgLatency |-> r.avgLatency, jitter |-> r.jitter, error |-> <<>>]

ModalRest == <<probe, scanHost, scanPorts, scanStage, discoveryResults,
               fullScanResults, probeCount, scanResult, cidrVars, appVars>>

\* The modal as first rendered (lines 16-17).
InitModal ==
    /\ modal \in {[device |-> d, isCheckingStability |-> FALSE, stabilityResult |-> <<>>] :
                      d \in ModalDevices}
    /\ stability = <<>>
    /\ probe = <<>>
    /\ scanHost = <<>>
    /\ scanPorts = <<>>
    /\ scanStage = "idle"
    /\ discoveryResults = <<>>
    /\ fullScanResults = <<>>
    /\ probeCount = 0
    /\ scanResult = <<>>
    /\ CidrIdle
    /\ AppIdle
    /\ timeout = DefaultTimeout
    /\ scansLeft = 0
    /\ oracle = {}

\* handleRunStabilityCheck up to its await (lines 19-35): with no port to
\* test the error result is set and the handler returns; otherwise
\* checkStability is called with its default ping count, and its pings are
\* started unless `new WebSocket` throws.
HandleRunStabilityCheck ==
    /\ modal # <<>>
    /\ ~modal.isCheckingStability
    /\ IF NoPortToTest(portToTest(modal.device))
       THEN /\ modal' = [modal EXCEPT !.stabilityResult = <<NoPortsResult>>]
            /\ UNCHANGED stability
       ELSE /\ modal' = [modal EXCEPT !.isCheckingStability = TRUE,
                                      !.stabilityResult = <<>>]
            /\ \E throws \in BOOLEAN : stability' = checkStability(DefaultPings, throws)
    /\ UNCHANGED ModalRest

\* A ping of the modal's check resolves.  The pings of one call go to one
\* host and port with one timeout: they are followed settling in the order
\* they were started, each like the first.
ModalPingResolves ==
    /\ modal # <<>>
    /\ stability # <<>>
    /\ stability.stage = "awaiting"
    /\ \E i \in 1..Len(stability.results) : \E outcome \in ModalPingOutcomes :
           /\ \A k \in 1..(i - 1) : stability.results[k] = outcome
           /\ PingResolves(i, outcome)

\* handleRunStabilityCheck after its await (lines 35-37): the result of the
\* call is set.  When the call rejected the handler's promise rejects and
\* isCheckingStability stays true.
StabilityCheckDone ==
    /\ modal # <<>>
    /\ modal.isCheckingStability
    /\ stability # <<>>
    /\ stability.stage = "returned"
    /\ modal' = [modal EXCEPT !.isCheckingStability = FALSE,
                              !.stabilityResult = <<WithoutError(stability.returned[1])>>]
    /\ UNCHANGED <<stability, ModalRest>>

NextModal ==
    \/ HandleRunStabilityCheck
    \/ ModalPingResolves
    \/ StabilityCheckDone

SpecModal == InitModal /\ [][NextModal]_vars

\* The modal's device has no open port.
NoOpenPort == modal # <<>> /\ Len(modal.device.openPorts) = 0

C22_Step ==
    (HandleRunStabilityCheck /\ NoOpenPort) =>
        /\ modal'.stabilityResult =
               <<[successRate |-> 0, totalPings |-> 0,
                  avgLatency |-> [num |-> 0, den |-> 1],
                  jitter |-> [root |-> [num |-> 0, den |-> 1]],
                  error |-> <<"No open ports available to run a stability test.">>]>>
        /\ ~modal'.isCheckingStability
        /\ UNCHANGED <<stability, probe, probeCount>>

\* C22: when handleRunStabilityCheck runs for a device with no open port, it
\* sets a result with an error text and successRate, totalPings, avgLatency
\* and jitter 0, and it makes no checkStability call: for such a device
\* there is never a ping, pending or resolved.
C22_NoPortNoProbe ==
    /\ [][C22_Step]_vars
    /\ [](NoOpenPort => stability = <<>> /\ probe = <<>> /\ probeCount = 0)

\* The handler has run for a device without open ports: the error result is
\* set and no check was started.
C22_Witness ==
    /\ NoOpenPort
    /\ modal.stabilityResult # <<>>
    /\ modal.stabilityResult[1].error # <<>>
    /\ stability = <<>>

(***************************************************************************)
(* Further properties of scanIp.                                           *)
(***************************************************************************)
\* Every Stage-1 probe of the call has been issued and has resolved.
Stage1Over ==
    /\ Len(discoveryResults) = Len(discoveryPorts)
    /\ \A i \in 1..Len(discoveryResults) : discoveryResults[i] \in {"open", "closed"}

\* C24: within one scanIp call the first seven probes are those of Stage 1,
\* and a Stage-2 probe exists, and a further probe is issued, only when
\* every Stage-1 probe has resolved; the outcomes of Stage 1 do not change
\* once Stage 2 has begun.
C24_Stage1BeforeStage2 ==
    /\ [](fullScanResults # <<>> \/ probeCount > Len(discoveryPorts) \/ scanStage = "stage2"
              => Stage1Over)
    /\ [][/\ (probeCount' > probeCount /\ probeCount > 0) => Stage1Over
          /\ scanStage = "stage2" => discoveryResults' = discoveryResults]_vars

\* Stage 2 is under way: one of its three probes has resolved, two are
\* pending, and Stage 1 resolved with one port open.
C24_Witness ==
    /\ scanStage = "stage2"
    /\ Len(fullScanResults) = 3
    /\ Cardinality({i \in 1..3 : fullScanResults[i] = "pending"}) = 2
    /\ Cardinality({i \in 1..Len(discoveryResults) : discoveryResults[i] = "open"}) = 1
    /\ probeCount = 10

\* The ports whose probes resolved open in the two stages of the call.
OpenInStage1 ==
    {discoveryPorts[i] : i \in {j \in 1..Len(discoveryResults) : discoveryResults[j] = "open"}}

OpenInStage2 ==
    {remainingPorts(scanPorts)[i] :
        i \in {j \in 1..Len(fullScanResults) : fullScanResults[j] = "open"}}

\* The configured port list names no port twice.
NoRepeatedPort ==
    \A i, j \in 1..Len(scanPorts) : scanPorts[i] = scanPorts[j] => i = j

\* C25: when scanIp has returned and a discovery port resolved open, the
\* result is Online and its openPorts are exactly the discovery ports that
\* resolved open and the configured ports outside the discovery set that
\* resolved open, in ascending numeric order, strictly ascending when the
\* configured list names no port twice, whatever the order in which the
\* probes resolved.
C25_MergedSortedOpenPorts ==
    (scanResult # <<>> /\ OpenInStage1 # {}) =>
        LET openPorts == scanResult[1].openPorts
        IN  /\ scanResult[1].status = "Online"
            /\ {openPorts[k] : k \in 1..Len(openPorts)} = OpenInStage1 \cup OpenInStage2
            /\ \A p \in OpenInStage2 : ~Includes(discoveryPorts, p) /\ Includes(scanPorts, p)
            /\ \A k \in 1..(Len(openPorts) - 1) : openPorts[k] <= openPorts[k + 1]
            /\ NoRepeatedPort =>
                   \A k \in 1..(Len(openPorts) - 1) : openPorts[k] < openPorts[k + 1]

\* scanIp returned for the list 8443, 3306, 443, 21 with 22 and 80 open in
\* Stage 1 and 8443 and 21 open in Stage 2: openPorts is 21, 22, 80, 8443.
C25_Witness ==
    /\ scanResult # <<>>
    /\ scanPorts = <<8443, 3306, 443, 21>>
    /\ OpenInStage1 = {80, 22}
    /\ OpenInStage2 = {8443, 21}
    /\ scanResult[1].openPorts = <<21, 22, 80, 8443>>

(***************************************************************************)
(* Further properties of the scheduler.                                    *)
(***************************************************************************)
\* The step is the completion of the address of worker w: completed grows
\* and the worker leaves its address.
Finishes(w) ==
    /\ workers[w] # <<>>
    /\ workers'[w] # workers[w]
    /\ scanProgress'.current = scanProgress.current + 1

\* What every completion does to the counters: found grows by one exactly
\* when a device for the address enters the collection.
C28_Counters(w) ==
    /\ scanProgress'.total = scanProgress.total
    /\ scanProgress'.found - scanProgress.found \in {0, 1}
    /\ (scanProgress'.found = scanProgress.found + 1) <=>
           (/\ Len(devices') = Len(devices) + 1
            /\ \E i \in 1..Len(devices') : devices'[i].ip = workers[w][1].ip)

\* C28 as stated: whenever an address completes, completed and found are
\* updated and the progress label becomes the address that has just
\* finished.
C28_LabelNamesFinished ==
    [][\A w \in 1..Len(workers) :
          Finishes(w) =>
              /\ C28_Counters(w)
              /\ scanProgress'.currentIp = workers[w][1].ip]_vars

\* C28, amended: the label is written when the processing of an address
\* starts, not when it ends.  The completion of an address updates completed
\* and found and leaves the label alone; in the same step the label becomes
\* the address the worker pulls next, if there is one, or 'Scan Complete'
\* when the run has ended.  While a run is in progress the label names the
\* address started last.
C28_LabelNamesStarted ==
    /\ [][\A w \in 1..Len(workers) :
             Finishes(w) =>
                 /\ C28_Counters(w)
                 /\ scanProgress'.currentIp =
                        IF ~isScanning' THEN ScanCompleteLabel
                        ELSE IF workers'[w] # <<>> THEN workers'[w][1].ip
                        ELSE scanProgress.currentIp]_vars
    /\ [](isScanning =>
             scanProgress.currentIp =
                 lastScanParams[1].ipList[scanProgress.total - Len(queue)])

\* Four addresses have completed, the queue is empty, and the label names
\* the address of a worker still scanning.
C28_Witness ==
    /\ isScanning
    /\ scanProgress.current = 4
    /\ queue = <<>>
    /\ \E w \in 1..Len(workers) :
           workers[w] # <<>> /\ workers[w][1].ip = scanProgress.currentIp

\* The step is the completion of the classification task t.
Settles(t) == t \in tasks /\ tasks' = tasks \ {t}

\* C29: when the scan of a host returns Online, a device for it with
\* isAnalyzing = true and category 'Analyzing...' enters the collection and
\* its classification is started in the same step, so the device is there
\* before the classification result is applied; and when the classification
\* completes, by success or by failure, the device made with it, of the same
\* run and address, goes from isAnalyzing = true to false and no other
\* device changes.
C29_AnalyzingThenSettled ==
    /\ [][\A w \in 1..Len(workers) :
             (Finishes(w) /\ scanProgress'.found = scanProgress.found + 1) =>
                 /\ \E i \in 1..Len(devices') :
                        /\ devices'[i].ip = workers[w][1].ip
                        /\ devices'[i].isAnalyzing
                        /\ devices'[i].category = "Analyzing..."
                 /\ \E t \in tasks' \ tasks : t.ip = workers[w][1].ip /\ t.gen = gen]_vars
    /\ [][\A t \in tasks :
             Settles(t) =>
                 /\ t.gen = gen
                 /\ Len(devices') = Len(devices)
                 /\ \E i \in 1..Len(devices) :
                        /\ devices[i].ip = t.ip
                        /\ devices[i].isAnalyzing
                        /\ ~devices'[i].isAnalyzing
                 /\ \A j \in 1..Len(devices) :
                        devices[j].ip # t.ip => devices'[j] = devices[j]]_vars

\* A run has reached its end: every worker has returned and isScanning is
\* false.
RunComplete ==
    /\ gen > 0
    /\ ~isScanning
    /\ \A w \in 1..Len(workers) : workers[w] = <<>>

\* C30: from the end of a run, when every worker has returned and isScanning
\* is false, until the next handleStartScan call, no step changes completed,
\* found, total or the label of the progress; a run whose isScanning is
\* false has no worker left, and its label is 'Scan Complete'.
C30_NoProgressAfterComplete ==
    /\ []((gen > 0 /\ ~isScanning) =>
             /\ RunComplete
             /\ queue = <<>>
             /\ scanProgress.currentIp = ScanCompleteLabel)
    /\ [][(RunComplete /\ gen' = gen) => scanProgress' = scanProgress]_vars

\* The run over one address has ended with the host found, and its
\* classification has answered since: completed and found are still 1.
C30_Witness ==
    /\ RunComplete
    /\ gen = 1
    /\ scanProgress.total = 1
    /\ scanProgress.current = 1
    /\ scanProgress.found = 1
    /\ Len(devices) = 1
    /\ ~devices[1].isAnalyzing
    /\ tasks = {}

(***************************************************************************)
(* Properties of the previous-scan snapshot.                               *)
(***************************************************************************)
\* The step is a handleStartScan call.
ScanStarts == gen' = gen + 1

\* C31: the previous-scan snapshot changes only in a handleStartScan call,
\* which sets it to the devices of the collection as they are at that
\* moment, keyed by address; no completion of a scan and no completion of a
\* classification, of the current or of the snapshotted run, changes it.
C31_SnapshotImmutable ==
    /\ [][previousScanDevices' # previousScanDevices => ScanStarts]_vars
    /\ [][ScanStarts =>
             /\ DOMAIN previousScanDevices' = {devices[i].ip : i \in 1..Len(devices)}
             /\ \A i \in 1..Len(devices) :
                    previousScanDevices'[devices[i].ip] = devices[i]]_vars
    /\ [][\A t \in tasks :
             (Settles(t) /\ t.ip \in DOMAIN previousScanDevices) =>
                 previousScanDevices'[t.ip] = previousScanDevices[t.ip]]_vars

\* The second run captured a device whose classification was pending; that
\* classification and the one of the second run have answered since, and
\* the snapshot still holds the device as captured.
C31_Witness ==
    /\ gen = 2
    /\ tasks = {}
    /\ Len(devices) = 1
    /\ ~devices[1].isAnalyzing
    /\ devices[1].ip \in DOMAIN previousScanDevices
    /\ previousScanDevices[devices[1].ip].isAnalyzing
    /\ previousScanDevices[devices[1].ip].category = "Analyzing..."

(***************************************************************************)
(* Properties of the queue of addresses.                                   *)
(***************************************************************************)
\* The list of the current run and the number of its addresses pulled.
RunList == lastScanParams[1].ipList
Pulled == Len(RunList) - Len(queue)

\* Workers inside processIp and the addresses they hold.
Busy == {w \in 1..Len(workers) : workers[w] # <<>>}
HeldBy(w) == workers[w][1].ip

\* The queue is the rest of the list, the addresses held are distinct ones
\* of the pulled prefix, and pulled = finished + held; after the run every
\* address has been pulled and finished.
C32_Partition ==
    gen > 0 =>
        /\ queue = SubSeq(RunList, Pulled + 1, Len(RunList))
        /\ \A w \in Busy : \E k \in 1..Pulled : HeldBy(w) = RunList[k]
        /\ \A v, w \in Busy : HeldBy(v) = HeldBy(w) => v = w
        /\ Cardinality(Busy) + scanProgress.current = Pulled
        /\ ~isScanning => (queue = <<>> /\ Busy = {} /\ Pulled = Len(RunList))

\* Worker w finishes an address in this step.
C32_Finishes(w) == w \in Busy /\ scanProgress'.current = scanProgress.current + 1
                      /\ workers' = [workers EXCEPT ![w] = workers'[w]]

\* Within a run the queue changes only by a worker that has finished its
\* address taking the first one; a start hands the first addresses of the
\* list to the workers in order and queues the rest.
C32_Step ==
    IF gen' # gen
    THEN LET n == Min(Len(workers'), Len(RunList'))
         IN  /\ \A w \in 1..Len(workers') :
                    workers'[w] = IF w <= n THEN AwaitingStage1(RunList'[w]) ELSE <<>>
             /\ queue' = SubSeq(RunList', n + 1, Len(RunList'))
    ELSE /\ RunList' = RunList
         /\ \A w \in 1..Len(workers) :
                /\ C32_Finishes(w) =>
                       IF queue # <<>>
                       THEN /\ workers'[w] = AwaitingStage1(Head(queue))
                            /\ queue' = Tail(queue)
                       ELSE workers'[w] = <<>> /\ queue' = queue
                /\ workers[w] = <<>> => workers'[w] = <<>>
                /\ (w \in Busy /\ ~C32_Finishes(w)) =>
                       (workers'[w] # <<>> /\ workers'[w][1].ip = HeldBy(w))
         /\ queue' # queue => \E w \in Busy : C32_Finishes(w)

\* C32: every address of the list is pulled from the queue by exactly one
\* worker, in list order: none is scanned twice and none is skipped, for
\* every interleaving of the workers and for a list shorter than the pool.
C32_EachAddressOnce == []C32_Partition /\ [][C32_Step]_vars

\* Six addresses, two workers: the fifth and sixth address are being
\* scanned after the first four have finished.
C32_Witness ==
    /\ gen = 2
    /\ Len(RunList) = 6
    /\ queue = <<>>
    /\ scanProgress.current = 4
    /\ {HeldBy(w) : w \in Busy} = {RunList[5], RunList[6]}

\* One address, two workers: the second worker has returned at once.
C32_ShortList ==
    /\ gen = 2
    /\ Len(RunList) = 1
    /\ isScanning
    /\ Busy = {1}
    /\ workers[2] = <<>>

(***************************************************************************)
(* Further properties of the device collection.                            *)
(***************************************************************************)
\* The result of the scan of worker w was Offline, or the scan failed.
C33_NotOnline(w) ==
    \/ ScanRejects(w)
    \/ /\ workers[w] # <<>>
       /\ AfterScan(w, <<OfflineResult(workers[w][1].ip)>>)

\* C33: every device of the collection has status Online and at least one
\* open port; a scan that resolved Offline and a scan that failed insert
\* nothing and start no classification.
C33_OnlyOnlineDevices ==
    /\ [](\A i \in 1..Len(devices) :
             devices[i].status = "Online" /\ devices[i].openPorts # <<>>)
    /\ [][\A w \in 1..Len(workers) :
             C33_NotOnline(w) => (devices' = devices /\ tasks' = tasks)]_vars

\* A run over two addresses has ended: one host is in the collection, the
\* scan of the other failed.
C33_Witness ==
    /\ gen = 1
    /\ ~isScanning
    /\ scanProgress.total = 2
    /\ Len(devices) = 1
    /\ devices[1].status = "Online"
    /\ consoleErrors # {}

\* The devices of the collection have distinct addresses, the tasks of one
\* run have distinct addresses, and every task of the current run belongs
\* to a device of the collection.
C34_Distinct ==
    /\ \A i, j \in 1..Len(devices) : devices[i].ip = devices[j].ip => i = j
    /\ \A s, t \in tasks : (s.gen = t.gen /\ s.ip = t.ip) => s = t
    /\ \A t \in tasks : t.gen = gen => DeviceAt(devices, t.ip) # <<>>

\* Within a run a device enters the collection together with exactly one
\* task, the one for its address, and no task starts otherwise.
C34_Step ==
    gen' = gen =>
        /\ Len(devices') \in {Len(devices), Len(devices) + 1}
        /\ Len(devices') = Len(devices) => tasks' \subseteq tasks
        /\ Len(devices') = Len(devices) + 1 =>
               \E t \in tasks' \ tasks :
                   /\ tasks' = tasks \cup {t}
                   /\ t.gen = gen
                   /\ DeviceAt(devices, t.ip) = <<>>
                   /\ DeviceAt(devices', t.ip) # <<>>
                   /\ t.scanResult.ip = t.ip

\* C34: in a run over distinct addresses no two devices of the collection
\* have the same address, and each host found online is handed to the
\* classification exactly once.
C34_OneDeviceOneTask == []C34_Distinct /\ [][C34_Step]_vars

\* The run over six addresses has ended with three hosts found: one is
\* classified, the classification of the other two is under way.
C34_Witness ==
    /\ gen = 2
    /\ ~isScanning
    /\ Len(RunList) = 6
    /\ Len(devices) = 3
    /\ Cardinality(tasks) = 2
    /\ Cardinality({i \in 1..Len(devices) : devices[i].isAnalyzing}) = 2

(***************************************************************************)
(* Properties of the start of a run.                                       *)
(***************************************************************************)
\* One of the two buttons is pressed in this step: scansLeft counts the
\* presses that remain.
Pressed == scansLeft' # scansLeft

\* Refresh Scan can be pressed only while isScanning is false, and
\* isScanning is true exactly while a worker of the run is inside processIp.
C35_Controls ==
    /\ (ENABLED HandleRefreshScan) => ~isScanning
    /\ gen > 0 => (isScanning <=> Busy # {})

\* C35: no run starts while one is running: Start Scan and Refresh Scan
\* are pressed only while isScanning is false, a run starts only from a
\* state where isScanning is false and no worker is active, so the active
\* workers all belong to the latest run, and isScanning is true from the
\* start of a run until the last of its workers has returned.
C35_OneRunAtATime ==
    /\ []C35_Controls
    /\ [][Pressed => ~isScanning]_vars
    /\ [][ScanStarts => (~isScanning /\ Busy = {} /\ isScanning')]_vars
    /\ [][(isScanning /\ ~isScanning') =>
             (gen' = gen /\ Cardinality(Busy) = 1 /\ queue = <<>>
              /\ \A w \in 1..Len(workers') : workers'[w] = <<>>)]_vars

\* The second run is under way: both workers are scanning while tasks of
\* the first run are still waiting for the classification.
C35_Witness ==
    /\ gen = 2
    /\ isScanning
    /\ Cardinality(Busy) = 2
    /\ \E t \in tasks : t.gen = 1
    /\ ~ENABLED HandleRefreshScan

(***************************************************************************)
(* SpecSnapshot: the third and later runs over one address.  It starts     *)
(* where the host was found and classified Server in the first run, and    *)
(* was found again in the second run, whose classification has not         *)
(* answered yet when the run is finalized.                                 *)
(***************************************************************************)
SnapshotHost == parseCidr(ShortCidr).ipList[1]

\* The scan result of the host with a discovery port open.
SnapshotResult == scanIpOf(SnapshotHost, {3306, 80, 22})

\* The device of the first run after its classification.
FirstRunDevice ==
    ApplyAnalysis(<<newDevice(SnapshotResult)>>, SnapshotHost,
                  analyzeDeviceByPorts(SnapshotResult, JsonReply("Server"))[1], <<>>)[1]

InitSnapshot ==
    /\ cidr = ShortCidr
    /\ cidrResult = <<>>
    /\ timeout = DefaultTimeout
    /\ ScanIdle
    /\ devices = <<newDevice(SnapshotResult)>>
    /\ previousScanDevices = DevicesMap(<<FirstRunDevice>>)
    /\ isScanning = FALSE
    /\ scanProgress = [current |-> 1, total |-> 1,
                       currentIp |-> ScanCompleteLabel, found |-> 1]
    /\ lastScanParams = <<[ipList |-> parseCidr(ShortCidr).ipList,
                           timeout |-> parseInt(DefaultTimeout)[1]]>>
    /\ queue = <<>>
    /\ workers = [w \in 1..concurrencyLimit |-> <<>>]
    /\ foundDevicesCount = 1
    /\ tasks = {[gen |-> 2, ip |-> SnapshotHost, scanResult |-> SnapshotResult,
                 currentDevicesMap |-> DevicesMap(<<FirstRunDevice>>)]}
    /\ gen = 2
    /\ consoleErrors = {}
    /\ formError = ""
    /\ scansLeft = MaxScans
    /\ oracle = {JsonReply("Server"), JsonReply("Printer")}

SpecSnapshot == InitSnapshot /\ [][Next]_vars

\* The Map is built anew at each start: it holds the devices of the
\* collection at that moment and nothing of the Map before.
C36_Replaced ==
    [][ScanStarts =>
          DOMAIN previousScanDevices' = {devices[i].ip : i \in 1..Len(devices)}]_vars

\* C36: the snapshot is replaced at each start and not merged; under
\* SpecSnapshot the host was in the collection of run 2, so when it was
\* absent from the collection of run 3 (the snapshot of run 4 does not hold
\* it) its device carries no conflict in run 4.
C36_NoConflictAcrossGap ==
    /\ C36_Replaced
    /\ [](gen = 4 /\ SnapshotHost \notin DOMAIN previousScanDevices =>
             \A i \in 1..Len(devices) :
                 devices[i].ip = SnapshotHost => devices[i].conflict = <<>>)

\* The host, absent from run 3, is in the collection of run 4 and its
\* classification has answered.
C36_Witness ==
    /\ gen = 4
    /\ SnapshotHost \notin DOMAIN previousScanDevices
    /\ Len(devices) = 1
    /\ ~devices[1].isAnalyzing
    /\ tasks = {}

(***************************************************************************)
(* Properties of the found counter.                                        *)
(***************************************************************************)
\* The scan of worker w resolves Online in this step.
C37_Online(w) ==
    /\ workers[w] # <<>>
    /\ \E A \in AnswerSets :
          /\ scanIpOf(workers[w][1].ip, A).status = "Online"
          /\ AfterScan(w, <<scanIpOf(workers[w][1].ip, A)>>)

\* found, the local counter of handleStartScan and the collection move
\* together: an Online result adds one to each, any other result to none.
C37_Step ==
    \A w \in 1..Len(workers) :
        /\ C37_Online(w) =>
               /\ scanProgress'.found = scanProgress.found + 1
               /\ foundDevicesCount' = foundDevicesCount + 1
               /\ Len(devices') = Len(devices) + 1
        /\ C33_NotOnline(w) =>
               /\ scanProgress'.found = scanProgress.found
               /\ foundDevicesCount' = foundDevicesCount
               /\ Len(devices') = Len(devices)

\* C37: found never exceeds the number of devices of the collection
\* during a run, and when the run is finalized found = number of devices
\* = number of addresses whose scan resolved Online.
C37_FoundIsDeviceCount ==
    /\ [](scanProgress.found <= Len(devices))
    /\ []((gen > 0 /\ ~isScanning) =>
             (scanProgress.found = Len(devices) /\ foundDevicesCount = Len(devices)))
    /\ [][C37_Step]_vars

\* A run over two addresses is finalized with one host found, the other
\* address having resolved Offline.
C37_Witness ==
    /\ gen = 1
    /\ ~isScanning
    /\ scanProgress.total = 2
    /\ scanProgress.current = 2
    /\ scanProgress.found = 1
    /\ Len(devices) = 1
    /\ consoleErrors = {}

(***************************************************************************)
(* SpecPorts: one call of scanIp, probe by probe, for a port list made by  *)
(* ScanForm.handleSubmit from the text of the ports field                  *)
(* (part_003:39-50).                                                       *)
(***************************************************************************)
\* String.prototype.trim for texts with blanks as their only white space.
RECURSIVE trim(_)
trim(t) ==
    IF Len(t) > 0 /\ Head(t) = " " THEN trim(Tail(t))
    ELSE IF Len(t) > 0 /\ t[Len(t)] = " " THEN trim(SubSeq(t, 1, Len(t) - 1))
    ELSE t

\* ports.split(',').map(p => parseInt(p.trim(), 10))
\*      .filter(p => !isNaN(p) && p > 0 && p <= 65535)  (lines 39-41)
parsedPorts(text) ==
    LET pieces == Split(text, ",")
        nums   == [k \in 1..Len(pieces) |-> parseInt(trim(pieces[k]))]
        kept   == FilterIdx(nums, {k \in 1..Len(nums) :
                                      nums[k] # <<>> /\ nums[k][1] > 0 /\ nums[k][1] <= 65535})
    IN  [k \in 1..Len(kept) |-> kept[k][1]]

\* The list of the valid ports as typed, repetitions kept.
uniquePorts_KeepAll(ports) ==
    ports

\* [...new Set(parsedPorts)] (line 48): the first occurrence of each port,
\* in the order of the list.
uniquePorts(ports) ==
    FilterIdx(ports, {i \in 1..Len(ports) : \A j \in 1..(i - 1) : ports[j] # ports[i]})

\* Texts of the ports field: discovery ports only; a repeated port; a mix
\* in descending order with a repetition; no discovery port, with entries
\* that are no port (a word, 0, 70000, an empty piece).
PortTexts ==
    {NumToString(443) \o <<",", " ">> \o NumToString(80),
     NumToString(21) \o <<",", " ">> \o NumToString(80) \o <<",">> \o NumToString(21),
     NumToString(8443) \o <<",">> \o NumToString(3306) \o <<",", " ">> \o NumToString(443)
        \o <<" ", ",">> \o NumToString(21) \o <<",">> \o NumToString(3306),
     NumToString(6379) \o <<",", " ", "x", ",">> \o NumToString(0) \o <<",", ",">>
        \o NumToString(25) \o <<",">> \o NumToString(70000)}

\* The lists handleSubmit passes on (line 50); a text without a valid port
\* is rejected (lines 43-46).
SubmittedPortLists ==
    {uniquePorts(parsedPorts(t)) : t \in {u \in PortTexts : Len(parsedPorts(u)) # 0}}

InitPorts ==
    /\ probe = <<>>
    /\ stability = <<>>
    /\ modal = <<>>
    /\ scanHost \in ScanHosts
    /\ scanPorts \in SubmittedPortLists
    /\ scanStage = "idle"
    /\ discoveryResults = <<>>
    /\ fullScanResults = <<>>
    /\ probeCount = 0
    /\ scanResult = <<>>
    /\ CidrIdle
    /\ AppIdle
    /\ timeout = DefaultTimeout
    /\ scansLeft = 0
    /\ oracle = {}

SpecPorts == InitPorts /\ [][NextScanIp]_vars

\* The ports of the probes issued so far, in the order of their issue.
ProbedPorts ==
    SubSeq(discoveryPorts, 1, Len(discoveryResults))
        \o SubSeq(remainingPorts(scanPorts), 1, Len(fullScanResults))

\* C38: scanIp probes no port twice; every port it probes is a discovery
\* port or a port of the configured list; the seven discovery ports are
\* probed whatever the list, and those that resolve open are reported, also
\* when the list does not name them.  COMMON_PORTS, the list of the App,
\* names no port twice either.
C38_EachPortOnce ==
    /\ probeCount = Len(ProbedPorts)
    /\ \A i, j \in 1..Len(ProbedPorts) : ProbedPorts[i] = ProbedPorts[j] => i = j
    /\ \A i \in 1..Len(ProbedPorts) :
           Includes(discoveryPorts, ProbedPorts[i]) \/ Includes(scanPorts, ProbedPorts[i])
    /\ scanStage # "idle" =>
           \A k \in 1..Len(discoveryPorts) : Includes(ProbedPorts, discoveryPorts[k])
    /\ (scanResult # <<>> /\ scanResult[1].status = "Online") =>
           \A k \in 1..Len(discoveryPorts) :
               discoveryResults[k] = "open" =>
                   Includes(scanResult[1].openPorts, discoveryPorts[k])
    /\ \A i, j \in 1..Len(COMMON_PORTS) : COMMON_PORTS[i] = COMMON_PORTS[j] => i = j

\* scanIp returned for the text "21, 80,21": 21 was probed once, in Stage
\* 2, and 22, which the list does not name, is reported open.
C38_Witness ==
    /\ scanResult # <<>>
    /\ scanPorts = <<21, 80>>
    /\ probeCount = 8
    /\ fullScanResults = <<"open">>
    /\ scanResult[1].openPorts = <<21, 22>>

(***************************************************************************)
(* SpecProbeFair: SpecProbe where time passes and a timer that is due and  *)
(* was not cleared fires, as the event loop of the browser has it.  The    *)
(* socket may stay silent for ever: its events are under no fairness.      *)
(***************************************************************************)
SpecProbeFair ==
    /\ InitProbe
    /\ [][NextProbe]_vars
    /\ WF_vars(ProbeTick)
    /\ WF_vars(ProbeOnTimeout)

\* The promise of the probe is fulfilled, or was rejected by the executor.
ProbeSettled == probe.promise # <<>> \/ probe.rejected

\* No open and no error event was delivered.
TransportSilent == \A i \in 1..Len(probe.events) : probe.events[i] = "timer"

SpecScanIpFair ==
    /\ InitScanIp
    /\ [][NextScanIp]_vars
    /\ WF_vars(ScanIpCall)
    /\ WF_vars(ProbeTimeout)
    /\ WF_vars(Stage1Resolved)

\* Every scanIp call returns from Stage 1 or comes to the point where all
\* its Stage-2 probes have resolved.
ScanIpProbesResolve ==
    <>(scanStage = "returned" \/ (scanStage = "stage2" /\ AllResolved(fullScanResults)))

\* From that point the only step is the return of scanIp.
ScanIpThenReturns ==
    [][(scanStage = "stage2" /\ AllResolved(fullScanResults)) =>
          (scanStage' = "returned" /\ scanResult' # <<>>)]_vars
====
